---- MODULE Spec2Model ----
(***************************************************************************)
(* Model of mongoose-auto-increment-reworked (src/src/index.ts, the        *)
(* MongooseAutoIncrementID class of lines 1-616).                          *)
(*                                                                         *)
(* The IdCounter collection is a sequence of counter documents {f, m, c}.  *)
(* Every query sent to it is one atomic step at the database (the "Exec"   *)
(* actions); the promise callback that receives the answer is a later,     *)
(* separate step.  Plugin instances, document saves and accessor calls are *)
(* processes, each with a position (pc).                                   *)
(***************************************************************************)
EXTENDS Integers, Sequences, FiniteSets, TLC

\* ------------------------------------------------------------------ bounds
NumInst == 2        \* plugin instances (new MongooseAutoIncrementID(...))
NumDocs == 2        \* documents that are saved
MaxRetries == 1     \* retries of the save hook that are counted (the count saturates)
MaxFaults == 1      \* store operations that may fail with a backend error

Inst == 1..NumInst
Docs == 1..NumDocs

\* --------------------------------------------------------- program constants
RETRY_TIMEOUT == 5   \* Conf.RETRY_TIMEOUT: ms between two runs of a waiting save closure

\* ------------------------------------------------------------- JS values
\* A JavaScript value as far as `typeof` and the arithmetic of the plugin see it.
Num(n) == [type |-> "number", n |-> n, s |-> ""]
Str(s) == [type |-> "string", n |-> 0, s |-> s]
JsFalse == [type |-> "boolean", n |-> 0, s |-> "false"]
JsTrue == [type |-> "boolean", n |-> 1, s |-> "true"]
Undefined == [type |-> "undefined", n |-> 0, s |-> ""]

\* JavaScript truthiness (if (x), !!x)
Truthy(v) ==
  CASE v.type = "number"    -> v.n # 0
    [] v.type = "string"    -> v.s # ""
    [] v.type = "boolean"   -> v = JsTrue
    [] OTHER                -> FALSE

\* ------------------------------------------------------------------ errors
NoError == [name |-> "", message |-> "", of |-> 0]
TypeError(msg) == [name |-> "TypeError", message |-> msg, of |-> 0]
\* an error raised by the database while serving a query of process `who`
MongoError(msg, who) == [name |-> "MongoError", message |-> msg, of |-> who]
SaveError == [name |-> "Error", message |-> "The initialisation promise rejected", of |-> 0]

\* ----------------------------------------------------------------- options
OptionKeys == {"field", "incrementBy", "nextCount", "resetCount", "startAt", "unique"}

InitialDefaults ==
  [field |-> Str("_id"), incrementBy |-> Num(1), nextCount |-> Str("_nextCount"),
   resetCount |-> Str("_resetCount"), startAt |-> Num(1), unique |-> JsTrue]

\* Object.assign(defaults, given): every own key of `given` overrides.
Assign(base, given) ==
  [k \in OptionKeys |-> IF k \in DOMAIN given THEN given[k] ELSE base[k]]

\* the `options` lazy getter: defaults, then the user's options, unique coerced
ResolveOptions(defaults, given) ==
  LET v == Assign(defaults, given)
  IN  [v EXCEPT !["unique"] = IF Truthy(v["unique"]) THEN JsTrue ELSE JsFalse]

\* variant of ValidateOptions that looks at startAt before the accessor names
ValidateOptionsSwapped(o) ==
  IF o["field"].type # "string" THEN TypeError("field must be a string")
  ELSE IF o["incrementBy"].type # "number" THEN TypeError("incrementBy must be a number")
  ELSE IF o["startAt"].type # "number" THEN TypeError("startAt must be a number")
  ELSE IF o["nextCount"].type # "string" /\ o["nextCount"] # JsFalse
    THEN TypeError("nextCount must be a string or false")
  ELSE IF o["resetCount"].type # "string" /\ o["resetCount"] # JsFalse
    THEN TypeError("resetCount must be a string or false")
  ELSE NoError

\* static validateOptions: the error it throws, or NoError
ValidateOptions(o) ==
  IF o["field"].type # "string" THEN TypeError("field must be a string")
  ELSE IF o["incrementBy"].type # "number" THEN TypeError("incrementBy must be a number")
  ELSE IF o["nextCount"].type # "string" /\ o["nextCount"] # JsFalse
    THEN TypeError("nextCount must be a string or false")
  ELSE IF o["resetCount"].type # "string" /\ o["resetCount"] # JsFalse
    THEN TypeError("resetCount must be a string or false")
  ELSE IF o["startAt"].type # "number" THEN TypeError("startAt must be a number")
  ELSE NoError

\* variant of initialStart that forgets the step
InitialStartNoStep(o) == o["startAt"].n

\* the `initialStart` lazy getter
initialStart(o) == o["startAt"].n - o["incrementBy"].n

\* ------------------------------------------------- the IdCounter collection
\* variant of Matching that selects by field name alone
MatchingByField(c, f, m) == {k \in 1..Len(c) : c[k].f = f}

\* indexes of the counter documents of scope (f, m)
Matching(c, f, m) == {k \in 1..Len(c) : c[k].f = f /\ c[k].m = m}

Lowest(S) == CHOOSE k \in S : \A j \in S : k <= j

\* findOne({f, m}): index of the document found, 0 for null
FindOne(c, f, m) == IF Matching(c, f, m) = {} THEN 0 ELSE Lowest(Matching(c, f, m))

\* the stored value of scope (f, m), 0 when it has no counter document
Stored(c, f, m) == IF FindOne(c, f, m) = 0 THEN 0 ELSE c[FindOne(c, f, m)].c

\* variant of Create on a collection without the unique index
CreateNoIndex(c, payload) == [ok |-> TRUE, coll |-> Append(c, payload)]

\* create(payload) under the unique index {f: 1, m: 1}
Create(c, payload) ==
  IF Matching(c, payload.f, payload.m) # {}
    THEN [ok |-> FALSE, coll |-> c]
    ELSE [ok |-> TRUE, coll |-> Append(c, payload)]

\* variant of IncAndFetch that answers the new value without storing it
IncAndFetchLost(c, f, m, delta) ==
  LET k == FindOne(c, f, m)
  IN  IF k = 0
        THEN [coll |-> c, value |-> delta]
        ELSE [coll |-> c, value |-> c[k].c + delta]

\* variant of IncAndFetch that answers the document as it was (new: false)
IncReadThenWrite(c, f, m, delta) ==
  LET k == FindOne(c, f, m)
  IN  IF k = 0
        THEN [coll |-> Append(c, [f |-> f, m |-> m, c |-> delta]), value |-> delta]
        ELSE [coll |-> [c EXCEPT ![k].c = @ + delta], value |-> c[k].c]

\* variant of IncAndFetch that applies the increment twice
IncAndFetchTwice(c, f, m, delta) ==
  LET k == FindOne(c, f, m)
  IN  IF k = 0
        THEN [coll |-> Append(c, [f |-> f, m |-> m, c |-> 2 * delta]), value |-> 2 * delta]
        ELSE [coll |-> [c EXCEPT ![k].c = @ + 2 * delta], value |-> c[k].c + 2 * delta]

\* findOneAndUpdate({f, m}, {$inc: {c: delta}}, {new: true, upsert: true})
IncAndFetch(c, f, m, delta) ==
  LET k == FindOne(c, f, m)
  IN  IF k = 0
        THEN [coll |-> Append(c, [f |-> f, m |-> m, c |-> delta]), value |-> delta]
        ELSE [coll |-> [c EXCEPT ![k].c = @ + delta], value |-> c[k].c + delta]

\* variant of SetIfGreater with the comparison reversed ($gt)
SetIfLess(c, f, m, v) ==
  LET S == {k \in Matching(c, f, m) : c[k].c > v}
  IN  IF S = {} THEN c ELSE [c EXCEPT ![Lowest(S)].c = v]

\* variant of SetIfGreater without the comparison
SetAlways(c, f, m, v) ==
  LET k == FindOne(c, f, m)
  IN  IF k = 0 THEN c ELSE [c EXCEPT ![k].c = v]

\* variant of SetIfGreater that inserts the document when the scope has none
SetIfGreaterUpsert(c, f, m, v) ==
  LET S == {k \in Matching(c, f, m) : c[k].c < v}
  IN  IF Matching(c, f, m) = {} THEN Append(c, [f |-> f, m |-> m, c |-> v])
      ELSE IF S = {} THEN c ELSE [c EXCEPT ![Lowest(S)].c = v]

\* variant of SetIfGreater whose filter is c: {$ne: v}
SetIfDifferent(c, f, m, v) ==
  LET S == {k \in Matching(c, f, m) : c[k].c # v}
  IN  IF S = {} THEN c ELSE [c EXCEPT ![Lowest(S)].c = v]

\* findOneAndUpdate({f, m, c: {$lt: v}}, {c: v}, {new: true}): no upsert
SetIfGreater(c, f, m, v) ==
  LET S == {k \in Matching(c, f, m) : c[k].c < v}
  IN  IF S = {} THEN c ELSE [c EXCEPT ![Lowest(S)].c = v]

\* variant of ResetScope without upsert
ResetNoUpsert(c, f, m, v) ==
  LET k == FindOne(c, f, m)
  IN  IF k = 0 THEN c ELSE [c EXCEPT ![k].c = v]

\* findOneAndUpdate({f, m}, {c: v}, {new: true, upsert: true})
ResetScope(c, f, m, v) ==
  LET k == FindOne(c, f, m)
  IN  IF k = 0 THEN Append(c, [f |-> f, m |-> m, c |-> v]) ELSE [c EXCEPT ![k].c = v]

\* ------------------------------------------------------------------- names
Schemas == {"S1", "S2"}
ModelNames == {"M1", "M2"}
FieldNames == {"_id", "seq"}
ScopeKeys == FieldNames \X ModelNames

\* ------------------------------------------------------------------- state
VARIABLES
  defaultOptions,  \* the module-level defaultOptions object
  coll,            \* the IdCounter collection: a sequence of [f, m, c]
  faults,          \* backend failures the environment may still inject
  readyMap,        \* readyMap: schema -> model name -> ReadyState
  promises,        \* promises[i]: the promise applyPlugin() of instance i returned
  plugin,          \* the MongooseAutoIncrementID instances
  preSave,         \* schema -> the pre('save') hooks added, in order (by instance)
  statics,         \* schema -> accessor name -> [kind, inst] (schema.static/method)
  doc,             \* the documents and the position of their save
  call,            \* calls of the accessors
  hist             \* history of each scope (records what has been observed)

vars == <<defaultOptions, coll, faults, readyMap, promises, plugin, preSave, statics,
          doc, call, hist>>

\* ------------------------------------------------------------- ReadyState
FreshState == [error |-> NoError, promise |-> 0, ready |-> FALSE]

HasState(rm, s, m) == s \in DOMAIN rm /\ m \in DOMAIN rm[s]

\* static getStateFor, seen through the three static observers
getErrorFor(rm, s, m) == IF HasState(rm, s, m) THEN rm[s][m].error ELSE NoError
getPromiseFor(rm, s, m) == IF HasState(rm, s, m) THEN rm[s][m].promise ELSE 0
isReady(rm, s, m) == IF HasState(rm, s, m) THEN rm[s][m].ready ELSE FALSE

\* variant of WithState that replaces the entry of (s, m) by an empty one
WithStateFresh(rm, s, m) ==
  [s2 \in DOMAIN rm \cup {s} |->
     IF s2 # s THEN rm[s2]
     ELSE IF s \notin DOMAIN rm THEN (m :> FreshState)
     ELSE [m2 \in DOMAIN rm[s] \cup {m} |-> IF m2 = m THEN FreshState ELSE rm[s][m2]]]

\* the `state` lazy getter: the entry of (s, m), created empty when missing
WithState(rm, s, m) ==
  [s2 \in DOMAIN rm \cup {s} |->
     IF s2 # s THEN rm[s2]
     ELSE IF s \notin DOMAIN rm THEN (m :> FreshState)
     ELSE IF m \in DOMAIN rm[s] THEN rm[s]
     ELSE [m2 \in DOMAIN rm[s] \cup {m} |-> IF m2 = m THEN FreshState ELSE rm[s][m2]]]

SetError(rm, s, m, e) == [WithState(rm, s, m) EXCEPT ![s][m].error = e]
SetPromise(rm, s, m, p) == [WithState(rm, s, m) EXCEPT ![s][m].promise = p]
SetReady(rm, s, m) == [WithState(rm, s, m) EXCEPT ![s][m].ready = TRUE]

\* ------------------------------------------------------- plugin instances
Field(i) == plugin[i].options["field"].s
Model(i) == plugin[i].model
ScopeOf(i) == <<Field(i), Model(i)>>
IncrementBy(i) == plugin[i].options["incrementBy"].n
StartAt(i) == plugin[i].options["startAt"].n

NoResp == [ok |-> TRUE, found |-> FALSE, value |-> 0, error |-> NoError]

\* ------------------------------------------------------ history of a scope
NoHist ==
  [issued |-> {},        \* values auto-allocated since the last reset or explicit write
   era |-> "unknown",     \* "fresh": only auto-allocations since the record was
                          \*   created by init() or reset
   hasFloor |-> FALSE,    \* an explicit value was synchronised since the last reset
   floor |-> 0,           \*   and the largest of those values
   hasNext |-> FALSE,     \* a nextCount answered since the last insertion or reset
   next |-> 0,            \*   and its answer
   afterReset |-> FALSE]  \* the last write to the scope was a reset

HistCreated(h) == [h EXCEPT !.era = "fresh", !.issued = {}, !.afterReset = FALSE]
HistInc(h, v) ==
  [h EXCEPT !.issued = @ \cup {v}, !.hasNext = FALSE, !.afterReset = FALSE]
HistSet(h, changed, v) ==
  [h EXCEPT !.issued = IF changed THEN {} ELSE @,
            !.era = IF changed THEN "unknown" ELSE @,
            !.floor = IF h.hasFloor /\ h.floor > v THEN h.floor ELSE v,
            !.hasFloor = TRUE,
            !.hasNext = FALSE, !.afterReset = FALSE]
HistReset(h) ==
  [h EXCEPT !.issued = {}, !.era = "fresh", !.hasFloor = FALSE, !.floor = 0,
            !.hasNext = FALSE, !.afterReset = TRUE]
HistNext(h, v) == [h EXCEPT !.hasNext = TRUE, !.next = v]

\* ------------------------------------------------------------ registration
\* the accessors a successful applyPlugin() adds: addNextCount, then addResetCount
WithAccessors(st, o, i) ==
  LET a == IF Truthy(o["nextCount"])
             THEN [n \in DOMAIN st \cup {o["nextCount"].s} |->
                     IF n = o["nextCount"].s THEN [kind |-> "next", inst |-> i] ELSE st[n]]
             ELSE st
  IN  IF Truthy(o["resetCount"])
        THEN [n \in DOMAIN a \cup {o["resetCount"].s} |->
                IF n = o["resetCount"].s THEN [kind |-> "reset", inst |-> i] ELSE a[n]]
        ELSE a

\* variant of ApplyPlugin that lets the validation error escape
ApplyPluginThrowing(i) ==
  /\ plugin[i].pc = "new"
  /\ LET s == plugin[i].schema
         m == plugin[i].model
         o == ResolveOptions(defaultOptions, plugin[i].given)
         e == ValidateOptions(o)
     IN  IF e # NoError
         THEN /\ plugin' = [plugin EXCEPT ![i].pc = "threw", ![i].options = o,
                                          ![i].resp = [NoResp EXCEPT !.ok = FALSE, !.error = e]]
              /\ UNCHANGED <<preSave, statics, readyMap, promises>>
         ELSE /\ plugin' = [plugin EXCEPT ![i].pc = "findOne", ![i].options = o,
                                          ![i].returned = i, ![i].finds = 1]
              /\ preSave' = [preSave EXCEPT ![s] = Append(@, i)]
              /\ statics' = [statics EXCEPT ![s] = WithAccessors(@, o, i)]
              /\ readyMap' = SetPromise(readyMap, s, m, i)
              /\ promises' = [promises EXCEPT ![i] = [status |-> "pending", reason |-> NoError]]
  /\ UNCHANGED <<defaultOptions, coll, faults, doc, call, hist>>

\* applyPlugin(): the synchronous part, up to the findOne() that init() sends
ApplyPlugin(i) ==
  /\ plugin[i].pc = "new"
  /\ LET s == plugin[i].schema
         m == plugin[i].model
         o == ResolveOptions(defaultOptions, plugin[i].given)
         e == ValidateOptions(o)
         inFlight == IF HasState(readyMap, s, m) /\ readyMap[s][m].promise # 0
                        /\ promises[readyMap[s][m].promise].status = "pending"
                     THEN readyMap[s][m].promise ELSE 0
     IN  IF e # NoError
         THEN \* catch (e): state.error = e; state.promise = Promise.reject(e)
              /\ plugin' = [plugin EXCEPT ![i].pc = "rejected", ![i].options = o,
                                          ![i].joined = inFlight, ![i].returned = i]
              /\ readyMap' = SetPromise(SetError(readyMap, s, m, e), s, m, i)
              /\ promises' = [promises EXCEPT ![i] = [status |-> "rejected", reason |-> e]]
              /\ UNCHANGED <<preSave, statics>>
         ELSE \* hooks and accessors are added, init() sends findOne,
              \* state.promise = init().catch(...)
              /\ plugin' = [plugin EXCEPT ![i].pc = "findOne", ![i].options = o,
                                          ![i].joined = inFlight, ![i].returned = i,
                                          ![i].finds = 1]
              /\ preSave' = [preSave EXCEPT ![s] = Append(@, i)]
              /\ statics' = [statics EXCEPT ![s] = WithAccessors(@, o, i)]
              /\ readyMap' = SetPromise(readyMap, s, m, i)
              /\ promises' = [promises EXCEPT ![i] = [status |-> "pending", reason |-> NoError]]
  /\ UNCHANGED <<defaultOptions, coll, faults, doc, call, hist>>

\* init(): findOne(findArgs) is served by the database
InitFindOneExec(i) ==
  /\ plugin[i].pc = "findOne"
  /\ \E fail \in BOOLEAN :
       /\ fail => faults > 0
       /\ faults' = IF fail THEN faults - 1 ELSE faults
       /\ plugin' = [plugin EXCEPT ![i].pc = "findResp",
            ![i].resp = IF fail
               THEN [NoResp EXCEPT !.ok = FALSE, !.error = MongoError("store unavailable", i)]
               ELSE [NoResp EXCEPT !.found = FindOne(coll, Field(i), Model(i)) # 0]]
  /\ UNCHANGED <<defaultOptions, coll, readyMap, promises, preSave, statics, doc, call, hist>>

\* variant of InitThen that sets the ready flag before the document is created
InitThenEager(i) ==
  /\ plugin[i].pc = "findResp"
  /\ plugin[i].resp.ok
  /\ IF plugin[i].resp.found
       THEN /\ plugin' = [plugin EXCEPT ![i].pc = "ready"]
            /\ readyMap' = SetReady(readyMap, plugin[i].schema, plugin[i].model)
            /\ promises' = [promises EXCEPT ![i].status = "fulfilled"]
       ELSE /\ plugin' = [plugin EXCEPT ![i].pc = "create", ![i].creates = 1]
            /\ readyMap' = SetReady(readyMap, plugin[i].schema, plugin[i].model)
            /\ UNCHANGED promises
  /\ UNCHANGED <<defaultOptions, coll, faults, preSave, statics, doc, call, hist>>

\* variant of InitThen that goes on to create() whatever findOne answered
InitThenAlwaysCreates(i) ==
  /\ plugin[i].pc = "findResp"
  /\ plugin[i].resp.ok
  /\ plugin' = [plugin EXCEPT ![i].pc = "create", ![i].creates = 1]
  /\ UNCHANGED <<readyMap, promises>>
  /\ UNCHANGED <<defaultOptions, coll, faults, preSave, statics, doc, call, hist>>

\* init(): the then-callback of findOne: ready if the document exists, else create()
InitThen(i) ==
  /\ plugin[i].pc = "findResp"
  /\ plugin[i].resp.ok
  /\ IF plugin[i].resp.found
       THEN /\ plugin' = [plugin EXCEPT ![i].pc = "ready"]
            /\ readyMap' = SetReady(readyMap, plugin[i].schema, plugin[i].model)
            /\ promises' = [promises EXCEPT ![i].status = "fulfilled"]
       ELSE /\ plugin' = [plugin EXCEPT ![i].pc = "create", ![i].creates = 1]
            /\ UNCHANGED <<readyMap, promises>>
  /\ UNCHANGED <<defaultOptions, coll, faults, preSave, statics, doc, call, hist>>

\* init(): create({c: initialStart, f, m}) is served by the database
InitCreateExec(i) ==
  /\ plugin[i].pc = "create"
  /\ \E fail \in BOOLEAN :
       /\ fail => faults > 0
       /\ faults' = IF fail THEN faults - 1 ELSE faults
       /\ LET r == Create(coll, [f |-> Field(i), m |-> Model(i),
                                 c |-> initialStart(plugin[i].options)])
          IN  IF fail
              THEN /\ plugin' = [plugin EXCEPT ![i].pc = "createResp",
                         ![i].resp = [NoResp EXCEPT !.ok = FALSE,
                                        !.error = MongoError("store unavailable", i)]]
                   /\ UNCHANGED <<coll, hist>>
              ELSE IF ~r.ok
              THEN /\ plugin' = [plugin EXCEPT ![i].pc = "createResp",
                         ![i].resp = [NoResp EXCEPT !.ok = FALSE,
                                        !.error = MongoError("E11000 duplicate key", i)]]
                   /\ UNCHANGED <<coll, hist>>
              ELSE /\ plugin' = [plugin EXCEPT ![i].pc = "createResp", ![i].resp = NoResp]
                   /\ coll' = r.coll
                   /\ hist' = [hist EXCEPT ![ScopeOf(i)] = HistCreated(@)]
  /\ UNCHANGED <<defaultOptions, readyMap, promises, preSave, statics, doc, call>>

\* init(): the then-callback of create()
InitCreated(i) ==
  /\ plugin[i].pc = "createResp"
  /\ plugin[i].resp.ok
  /\ plugin' = [plugin EXCEPT ![i].pc = "ready"]
  /\ readyMap' = SetReady(readyMap, plugin[i].schema, plugin[i].model)
  /\ promises' = [promises EXCEPT ![i].status = "fulfilled"]
  /\ UNCHANGED <<defaultOptions, coll, faults, preSave, statics, doc, call, hist>>

\* applyPlugin(): the catch-callback on init(): state.error = e; throw e
InitCatch(i) ==
  /\ plugin[i].pc \in {"findResp", "createResp"}
  /\ ~plugin[i].resp.ok
  /\ plugin' = [plugin EXCEPT ![i].pc = "rejected"]
  /\ readyMap' = SetError(readyMap, plugin[i].schema, plugin[i].model, plugin[i].resp.error)
  /\ promises' = [promises EXCEPT ![i] = [status |-> "rejected", reason |-> plugin[i].resp.error]]
  /\ UNCHANGED <<defaultOptions, coll, faults, preSave, statics, doc, call, hist>>

\* -------------------------------------------------------------- documents
\* what an auto-allocation found and got, kept while its answer is in flight
NoAuto ==
  [by |-> 0, value |-> 0,
   had |-> FALSE,         \* the counter document existed
   from |-> 0,            \* the stored value the increment was applied to (0: no record)
   ord |-> 0,             \* n: the n-th allocation since the record was created by
                          \*   init() or reset, 0 when that is not known
   seen |-> {},           \* hist.issued as the query found it
   hasFloor |-> FALSE, floor |-> 0]

IdleDoc ==
  [pc |-> "idle", schema |-> "S1", isNew |-> TRUE,
   val |-> [f \in FieldNames |-> Undefined],     \* the document's fields
   given |-> [f \in FieldNames |-> Undefined],   \* the fields as the caller set them
   hooks |-> <<>>, k |-> 0, retries |-> 0, resp |-> NoResp, error |-> NoError,
   auto |-> NoAuto, calls |-> 0]

\* the instance whose hook document d is in
Hook(d) == doc[d].hooks[doc[d].k]

\* variant of Enter that does not test isNew
EnterAlways(r, k) == [r EXCEPT !.k = k, !.pc = "saveQueued"]

\* the function given to schema.pre('save') is invoked for hook k:
\* setImmediate(save) for a new document, setImmediate(next) otherwise
Enter(r, k) == [r EXCEPT !.k = k, !.pc = IF r.isNew THEN "saveQueued" ELSE "nextQueued"]

\* next(): the following hook is invoked, or the document is saved
Advance(r) ==
  IF r.k < Len(r.hooks) THEN Enter(r, r.k + 1) ELSE [r EXCEPT !.pc = "saved"]

\* values a caller may have put on a field before saving
GivenValues == {Undefined, Num(2), Num(10)}

\* doc.save() on a document of a model of schema s
Save(d, s, new, f, v) ==
  /\ doc[d].pc = "idle"
  /\ \A e \in Docs : e < d => doc[e].pc # "idle"   \* documents are numbered in save order
  /\ Len(preSave[s]) > 0
  /\ f \in {plugin[i].options["field"].s : i \in {preSave[s][k] : k \in 1..Len(preSave[s])}}
  /\ LET r == [doc[d] EXCEPT !.schema = s, !.isNew = new, !.hooks = preSave[s],
                             !.val = [@ EXCEPT ![f] = v], !.given = [@ EXCEPT ![f] = v]]
     IN  doc' = [doc EXCEPT ![d] = Enter(r, 1)]
  /\ UNCHANGED <<defaultOptions, coll, faults, readyMap, promises, plugin, preSave,
                 statics, call, hist>>

Bump(n) == IF n < MaxRetries THEN n + 1 ELSE n

\* variant of SaveFn that gives up after MaxRetries retries
SaveFnCeiling(d) ==
  /\ doc[d].pc = "saveQueued"
  /\ LET i == Hook(d)
         s == plugin[i].schema
         m == plugin[i].model
     IN  IF isReady(readyMap, s, m)
         THEN doc' = [doc EXCEPT ![d].pc =
                        IF doc[d].val[Field(i)].type = "number" THEN "numSent" ELSE "anySent",
                        ![d].calls = @ + 1]
         ELSE IF getErrorFor(readyMap, s, m) = NoError /\ doc[d].retries < MaxRetries
         THEN doc' = [doc EXCEPT ![d].retries = Bump(@)]
         ELSE doc' = [doc EXCEPT ![d].pc = "errQueued"]
  /\ UNCHANGED <<defaultOptions, coll, faults, readyMap, promises, plugin, preSave,
                 statics, call, hist>>

\* variant of SaveFn that does not arm the retry timer again
SaveFnNoRearm(d) ==
  /\ doc[d].pc = "saveQueued"
  /\ LET i == Hook(d)
         s == plugin[i].schema
         m == plugin[i].model
     IN  IF isReady(readyMap, s, m)
         THEN doc' = [doc EXCEPT ![d].pc =
                        IF doc[d].val[Field(i)].type = "number" THEN "numSent" ELSE "anySent",
                        ![d].calls = @ + 1]
         ELSE IF getErrorFor(readyMap, s, m) = NoError
         THEN doc' = [doc EXCEPT ![d].retries = Bump(@), ![d].pc = "parked"]
         ELSE doc' = [doc EXCEPT ![d].pc = "errQueued"]
  /\ UNCHANGED <<defaultOptions, coll, faults, readyMap, promises, plugin, preSave,
                 statics, call, hist>>

\* variant of SaveFn that allocates whatever the field holds
SaveFnAlwaysAllocates(d) ==
  /\ doc[d].pc = "saveQueued"
  /\ LET i == Hook(d)
         s == plugin[i].schema
         m == plugin[i].model
     IN  IF isReady(readyMap, s, m)
         THEN doc' = [doc EXCEPT ![d].pc = "anySent", ![d].calls = @ + 1]
         ELSE IF getErrorFor(readyMap, s, m) = NoError
         THEN doc' = [doc EXCEPT ![d].retries = Bump(@)]
         ELSE doc' = [doc EXCEPT ![d].pc = "errQueued"]
  /\ UNCHANGED <<defaultOptions, coll, faults, readyMap, promises, plugin, preSave,
                 statics, call, hist>>

\* variant of SaveFn that tests the field for truthiness instead of typeof
SaveFnTruthy(d) ==
  /\ doc[d].pc = "saveQueued"
  /\ LET i == Hook(d)
         s == plugin[i].schema
         m == plugin[i].model
     IN  IF isReady(readyMap, s, m)
         THEN doc' = [doc EXCEPT ![d].pc =
                        IF Truthy(doc[d].val[Field(i)]) THEN "numSent" ELSE "anySent",
                        ![d].calls = @ + 1]
         ELSE IF getErrorFor(readyMap, s, m) = NoError
         THEN doc' = [doc EXCEPT ![d].retries = Bump(@)]
         ELSE doc' = [doc EXCEPT ![d].pc = "errQueued"]
  /\ UNCHANGED <<defaultOptions, coll, faults, readyMap, promises, plugin, preSave,
                 statics, call, hist>>

\* variant of SaveFn that sends its query without looking at the ready flag
SaveFnNoWait(d) ==
  /\ doc[d].pc = "saveQueued"
  /\ LET i == Hook(d)
         s == plugin[i].schema
         m == plugin[i].model
     IN  IF getErrorFor(readyMap, s, m) = NoError
         THEN doc' = [doc EXCEPT ![d].pc =
                        IF doc[d].val[Field(i)].type = "number" THEN "numSent" ELSE "anySent",
                        ![d].calls = @ + 1]
         ELSE doc' = [doc EXCEPT ![d].pc = "errQueued"]
  /\ UNCHANGED <<defaultOptions, coll, faults, readyMap, promises, plugin, preSave,
                 statics, call, hist>>

\* the `save` closure of the hook runs (from setImmediate or from its retry timer)
SaveFn(d) ==
  /\ doc[d].pc = "saveQueued"
  /\ LET i == Hook(d)
         s == plugin[i].schema
         m == plugin[i].model
     IN  IF isReady(readyMap, s, m)
         THEN doc' = [doc EXCEPT ![d].pc =
                        IF doc[d].val[Field(i)].type = "number" THEN "numSent" ELSE "anySent",
                        ![d].calls = @ + 1]
         ELSE IF getErrorFor(readyMap, s, m) = NoError
         THEN doc' = [doc EXCEPT ![d].retries = Bump(@)]
         ELSE doc' = [doc EXCEPT ![d].pc = "errQueued"]
  /\ UNCHANGED <<defaultOptions, coll, faults, readyMap, promises, plugin, preSave,
                 statics, call, hist>>

\* setImmediate(next) of a document that is not new
NextImmediate(d) ==
  /\ doc[d].pc = "nextQueued"
  /\ doc' = [doc EXCEPT ![d] = Advance(@)]
  /\ UNCHANGED <<defaultOptions, coll, faults, readyMap, promises, plugin, preSave,
                 statics, call, hist>>

\* setImmediate(next, new Error('The initialisation promise rejected'))
NextError(d) ==
  /\ doc[d].pc = "errQueued"
  /\ doc' = [doc EXCEPT ![d].pc = "failed", ![d].error = SaveError]
  /\ UNCHANGED <<defaultOptions, coll, faults, readyMap, promises, plugin, preSave,
                 statics, call, hist>>

\* onSaveNumberField(value): the conditional update is served by the database
OnSaveNumberFieldExec(d) ==
  /\ doc[d].pc = "numSent"
  /\ \E fail \in BOOLEAN :
       /\ fail => faults > 0
       /\ faults' = IF fail THEN faults - 1 ELSE faults
       /\ LET i == Hook(d)
              c2 == SetIfGreater(coll, Field(i), Model(i), doc[d].val[Field(i)].n)
          IN  IF fail
              THEN /\ doc' = [doc EXCEPT ![d].pc = "numResp",
                         ![d].resp = [NoResp EXCEPT !.ok = FALSE,
                                        !.error = MongoError("store unavailable", d)]]
                   /\ UNCHANGED <<coll, hist>>
              ELSE /\ doc' = [doc EXCEPT ![d].pc = "numResp", ![d].resp = NoResp]
                   /\ coll' = c2
                   /\ hist' = [hist EXCEPT ![ScopeOf(i)] = HistSet(@, c2 # coll, doc[d].val[Field(i)].n)]
  /\ UNCHANGED <<defaultOptions, readyMap, promises, plugin, preSave, statics, call>>

\* .then(() => next()) of onSaveNumberField
OnSaveNumberFieldThen(d) ==
  /\ doc[d].pc = "numResp"
  /\ doc[d].resp.ok
  /\ doc' = [doc EXCEPT ![d] = Advance(@)]
  /\ UNCHANGED <<defaultOptions, coll, faults, readyMap, promises, plugin, preSave,
                 statics, call, hist>>

\* onSaveAnyField(): the upserting $inc is served by the database
OnSaveAnyFieldExec(d) ==
  /\ doc[d].pc = "anySent"
  /\ \E fail \in BOOLEAN :
       /\ fail => faults > 0
       /\ faults' = IF fail THEN faults - 1 ELSE faults
       /\ LET i == Hook(d)
              r == IncAndFetch(coll, Field(i), Model(i), IncrementBy(i))
              h == hist[ScopeOf(i)]
          IN  IF fail
              THEN /\ doc' = [doc EXCEPT ![d].pc = "anyResp",
                         ![d].resp = [NoResp EXCEPT !.ok = FALSE,
                                        !.error = MongoError("store unavailable", d)]]
                   /\ UNCHANGED <<coll, hist>>
              ELSE /\ doc' = [doc EXCEPT ![d].pc = "anyResp",
                         ![d].resp = [NoResp EXCEPT !.value = r.value],
                         ![d].auto = [by |-> i, value |-> r.value,
                                      had |-> FindOne(coll, Field(i), Model(i)) # 0,
                                      from |-> Stored(coll, Field(i), Model(i)),
                                      ord |-> IF h.era = "fresh"
                                                THEN Cardinality(h.issued) + 1 ELSE 0,
                                      seen |-> h.issued,
                                      hasFloor |-> h.hasFloor, floor |-> h.floor]]
                   /\ coll' = r.coll
                   /\ hist' = [hist EXCEPT ![ScopeOf(i)] = HistInc(@, r.value)]
  /\ UNCHANGED <<defaultOptions, readyMap, promises, plugin, preSave, statics, call>>

\* variant of OnSaveAnyFieldThen that calls next() without writing the field
OnSaveAnyFieldThenNoWrite(d) ==
  /\ doc[d].pc = "anyResp"
  /\ doc[d].resp.ok
  /\ doc' = [doc EXCEPT ![d] = Advance([@ EXCEPT !.auto = NoAuto])]
  /\ UNCHANGED <<defaultOptions, coll, faults, readyMap, promises, plugin, preSave,
                 statics, call, hist>>

\* .then(newCount => { this[field] = newCount; next(); }) of onSaveAnyField
OnSaveAnyFieldThen(d) ==
  /\ doc[d].pc = "anyResp"
  /\ doc[d].resp.ok
  /\ doc' = [doc EXCEPT ![d] =
               Advance([@ EXCEPT !.val = [@ EXCEPT ![Field(Hook(d))] = Num(doc[d].resp.value)],
                                 !.auto = NoAuto])]
  /\ UNCHANGED <<defaultOptions, coll, faults, readyMap, promises, plugin, preSave,
                 statics, call, hist>>

\* variant of SaveCatch that records the store's error as the allocator's error
SaveCatchRecording(d) ==
  /\ doc[d].pc \in {"numResp", "anyResp"}
  /\ ~doc[d].resp.ok
  /\ doc' = [doc EXCEPT ![d].pc = "failed", ![d].error = doc[d].resp.error]
  /\ readyMap' = SetError(readyMap, plugin[Hook(d)].schema, plugin[Hook(d)].model,
                          doc[d].resp.error)
  /\ UNCHANGED <<defaultOptions, coll, faults, promises, plugin, preSave, statics, call, hist>>

\* an error thrown by next() itself while a then-callback invokes it
RaisedError == [name |-> "Error", message |-> "thrown by next()", of |-> 0]

\* .then(() => next()) of onSaveNumberField, next() throwing: the promise of the
\* then-callback is rejected with what next() threw
OnSaveNumberFieldThenRaises(d) ==
  /\ doc[d].pc = "numResp"
  /\ doc[d].resp.ok
  /\ doc' = [doc EXCEPT ![d].pc = "nextRaised",
                         ![d].resp = [NoResp EXCEPT !.ok = FALSE, !.error = RaisedError]]
  /\ UNCHANGED <<defaultOptions, coll, faults, readyMap, promises, plugin, preSave,
                 statics, call, hist>>

\* .then(newCount => { this[field] = newCount; next(); }) of onSaveAnyField, next()
\* throwing after the field was written
OnSaveAnyFieldThenRaises(d) ==
  /\ doc[d].pc = "anyResp"
  /\ doc[d].resp.ok
  /\ doc' = [doc EXCEPT ![d].pc = "nextRaised",
                         ![d].val = [@ EXCEPT ![Field(Hook(d))] = Num(doc[d].resp.value)],
                         ![d].auto = NoAuto,
                         ![d].resp = [NoResp EXCEPT !.ok = FALSE, !.error = RaisedError]]
  /\ UNCHANGED <<defaultOptions, coll, faults, readyMap, promises, plugin, preSave,
                 statics, call, hist>>

\* .catch(next) receiving what next() threw inside the then-callback: next is invoked
\* again, with the error
CatchRaised(d) ==
  /\ doc[d].pc = "nextRaised"
  /\ doc' = [doc EXCEPT ![d].pc = "nextAgain", ![d].error = doc[d].resp.error]
  /\ UNCHANGED <<defaultOptions, coll, faults, readyMap, promises, plugin, preSave,
                 statics, call, hist>>

\* how often `next` of the hook invocation document d is in has been invoked
NextCalls(d) ==
  CASE doc[d].pc = "nextAgain" -> 2
    [] doc[d].pc \in {"saved", "failed", "nextRaised"} -> 1
    [] OTHER -> 0

\* .catch(next) of either query: the save fails with the store's error
SaveCatch(d) ==
  /\ doc[d].pc \in {"numResp", "anyResp"}
  /\ ~doc[d].resp.ok
  /\ doc' = [doc EXCEPT ![d].pc = "failed", ![d].error = doc[d].resp.error]
  /\ UNCHANGED <<defaultOptions, coll, faults, readyMap, promises, plugin, preSave,
                 statics, call, hist>>

\* -------------------------------------------------------------- accessors
\* The last call of an accessor and what its promise settled with.  A call is one
\* query; the step is the moment the database serves it, and the value is what the
\* then-callback makes of the answer.
NoCall ==
  [kind |-> "none", inst |-> 0, ok |-> TRUE, value |-> 0]

Registered(kind, i) ==
  \E s \in Schemas : \E name \in DOMAIN statics[s] :
     statics[s][name] = [kind |-> kind, inst |-> i]

Failed(kind, i) == [NoCall EXCEPT !.kind = kind, !.inst = i, !.ok = FALSE]

\* variant of NextCountValue that takes a stored 0 for a missing document
NextCountValueFalsy(c, o) ==
  IF c = <<>> \/ c[1].c = 0 THEN o["startAt"].n ELSE c[1].c + o["incrementBy"].n

\* nextCount's then-callback: doc === null ? startAt : doc.c + incrementBy
NextCountValue(c, o) ==
  IF c = <<>> THEN o["startAt"].n ELSE c[1].c + o["incrementBy"].n

\* the documents findOne({f, m}) answers with: none, or the one found
Found(c, f, m) == IF FindOne(c, f, m) = 0 THEN <<>> ELSE <<c[FindOne(c, f, m)]>>

\* variant of nextCount that advances the counter to compute its answer
nextCountWriting(i) ==
  /\ Registered("next", i)
  /\ \E fail \in BOOLEAN :
       /\ fail => faults > 0
       /\ faults' = IF fail THEN faults - 1 ELSE faults
       /\ LET r == IncAndFetch(coll, Field(i), Model(i), IncrementBy(i))
          IN  IF fail
              THEN /\ call' = Failed("next", i)
                   /\ UNCHANGED <<coll, hist>>
              ELSE /\ call' = [NoCall EXCEPT !.kind = "next", !.inst = i, !.value = r.value]
                   /\ coll' = r.coll
                   /\ hist' = [hist EXCEPT ![ScopeOf(i)] = HistNext(@, r.value)]
  /\ UNCHANGED <<defaultOptions, readyMap, promises, plugin, preSave, statics, doc>>

\* the accessor added by addNextCount, called on the model or on a document
nextCount(i) ==
  /\ Registered("next", i)
  /\ \E fail \in BOOLEAN :
       /\ fail => faults > 0
       /\ faults' = IF fail THEN faults - 1 ELSE faults
       /\ LET h == hist[ScopeOf(i)]
              v == NextCountValue(Found(coll, Field(i), Model(i)), plugin[i].options)
          IN  IF fail
              THEN /\ call' = Failed("next", i)
                   /\ UNCHANGED hist
              ELSE /\ call' = [NoCall EXCEPT !.kind = "next", !.inst = i, !.value = v]
                   /\ hist' = [hist EXCEPT ![ScopeOf(i)] = HistNext(@, v)]
  /\ UNCHANGED <<defaultOptions, coll, readyMap, promises, plugin, preSave, statics, doc>>

\* the accessor added by addResetCount: upserting update {c: initialStart},
\* then startAt
resetCount(i) ==
  /\ Registered("reset", i)
  /\ \E fail \in BOOLEAN :
       /\ fail => faults > 0
       /\ faults' = IF fail THEN faults - 1 ELSE faults
       /\ IF fail
          THEN /\ call' = Failed("reset", i)
               /\ UNCHANGED <<coll, hist>>
          ELSE /\ call' = [NoCall EXCEPT !.kind = "reset", !.inst = i, !.value = StartAt(i)]
               /\ coll' = ResetScope(coll, Field(i), Model(i), initialStart(plugin[i].options))
               /\ hist' = [hist EXCEPT ![ScopeOf(i)] = HistReset(@)]
  /\ UNCHANGED <<defaultOptions, readyMap, promises, plugin, preSave, statics, doc>>

\* ------------------------------------------------------------ environment
\* the counter documents are deleted from outside (deleteMany({}))
cleanIdCount ==
  /\ coll # <<>>
  /\ coll' = <<>>
  /\ hist' = [sk \in ScopeKeys |-> NoHist]
  /\ UNCHANGED <<defaultOptions, faults, readyMap, promises, plugin, preSave, statics,
                 doc, call>>

\* ------------------------------------------------------------ construction
\* values a caller may pass where a Schema and a model name are expected
\* a Schema instance is an object for which `instanceof Schema` holds
SchemaObj(name) == [type |-> "Schema", n |-> 0, s |-> name]
SchemaArgs == {SchemaObj(x) : x \in Schemas} \cup {Undefined, JsTrue}
ModelArgs == {Str(m) : m \in ModelNames} \cup {Str(""), Undefined, JsTrue}

\* the error the constructor throws for (schema, modelName), or NoError
ConstructorError(s, m) ==
  IF s.type # "Schema"
    THEN TypeError("Schema is required and must be an instance of Mongoose Schema")
  ELSE IF ~Truthy(m) \/ m.type # "string" THEN TypeError("Model name must be a string")
  ELSE NoError

\* new MongooseAutoIncrementID(schema, modelName, options): throws, or keeps its
\* arguments; nothing else is touched
Construct(i, s, m, given) ==
  /\ plugin[i].pc = "unused"
  /\ \A j \in Inst : j < i => plugin[j].pc # "unused"   \* instances are numbered in order
  /\ LET e == ConstructorError(s, m)
     IN  plugin' = IF e # NoError
           THEN [plugin EXCEPT ![i].pc = "threw", ![i].resp = [NoResp EXCEPT !.ok = FALSE,
                                                                             !.error = e]]
           ELSE [plugin EXCEPT ![i].pc = "new", ![i].schema = s.s, ![i].model = m.s,
                               ![i].given = given]
  /\ UNCHANGED <<defaultOptions, coll, faults, readyMap, promises, preSave, statics,
                 doc, call, hist>>

\* --------------------------------------------------------------- observers
\* variant of Observe whose lookup creates the entry it does not find
ObserveCreating(s, m) ==
  /\ call' = [kind |-> "observe", inst |-> 0, ok |-> TRUE, value |-> 0,
              schema |-> s, model |-> m,
              error |-> getErrorFor(readyMap, s, m),
              promise |-> getPromiseFor(readyMap, s, m),
              ready |-> isReady(readyMap, s, m)]
  /\ readyMap' = WithState(readyMap, s, m)
  /\ UNCHANGED <<defaultOptions, coll, faults, promises, plugin, preSave, statics,
                 doc, hist>>

\* getErrorFor, getPromiseFor and isReady called for (schema, modelName): getStateFor
\* reads readyMap and nothing is written
Observe(s, m) ==
  /\ call' = [kind |-> "observe", inst |-> 0, ok |-> TRUE, value |-> 0,
              schema |-> s, model |-> m,
              error |-> getErrorFor(readyMap, s, m),
              promise |-> getPromiseFor(readyMap, s, m),
              ready |-> isReady(readyMap, s, m)]
  /\ UNCHANGED <<defaultOptions, coll, faults, readyMap, promises, plugin, preSave,
                 statics, doc, hist>>

\* the `error`, `isReady` and `promise` getters of instance i: this.state.<field>
InstanceError(i) == getErrorFor(readyMap, plugin[i].schema, plugin[i].model)
InstanceIsReady(i) == isReady(readyMap, plugin[i].schema, plugin[i].model)
InstancePromise(i) == getPromiseFor(readyMap, plugin[i].schema, plugin[i].model)

\* doc.save() on a schema that applyPlugin() added no pre-save hook to (validation
\* threw before addPreSave): nothing stands between the call and the insertion
SaveNoHook(d, s, f, v) ==
  /\ doc[d].pc = "idle"
  /\ \A e \in Docs : e < d => doc[e].pc # "idle"
  /\ Len(preSave[s]) = 0
  /\ \E i \in Inst : plugin[i].pc = "rejected" /\ plugin[i].schema = s
  /\ doc' = [doc EXCEPT ![d] = [@ EXCEPT !.schema = s, !.isNew = TRUE, !.pc = "saved",
                                         !.val = [@ EXCEPT ![f] = v],
                                         !.given = [@ EXCEPT ![f] = v]]]
  /\ UNCHANGED <<defaultOptions, coll, faults, readyMap, promises, plugin, preSave,
                 statics, call, hist>>

\* ---------------------------------------------------------------- defaults
\* variant of setDefaults that stores the merged options before validating them
setDefaultsUnchecked(newOpts) ==
  /\ LET out == Assign(defaultOptions, newOpts)
         e == ValidateOptions(out)
     IN  /\ defaultOptions' = out
         /\ call' = [kind |-> "setDefaults", inst |-> 0, ok |-> e = NoError, value |-> 0,
                     error |-> e, defaults |-> out]
  /\ UNCHANGED <<coll, faults, readyMap, promises, plugin, preSave, statics, doc, hist>>

\* static setDefaults(newOpts): out = Object.assign(getDefaults(), newOpts);
\* validateOptions(out) throws, or defaultOptions = out
setDefaults(newOpts) ==
  /\ LET out == Assign(defaultOptions, newOpts)
         e == ValidateOptions(out)
     IN  /\ defaultOptions' = IF e # NoError THEN defaultOptions ELSE out
         /\ call' = [kind |-> "setDefaults", inst |-> 0, ok |-> e = NoError, value |-> 0,
                     error |-> e, defaults |-> out]
  /\ UNCHANGED <<coll, faults, readyMap, promises, plugin, preSave, statics, doc, hist>>

\* static getDefaults(): a copy of defaultOptions
getDefaults ==
  /\ call' = [kind |-> "getDefaults", inst |-> 0, ok |-> TRUE, value |-> 0,
              error |-> NoError, defaults |-> defaultOptions]
  /\ UNCHANGED <<defaultOptions, coll, faults, readyMap, promises, plugin, preSave,
                 statics, doc, hist>>

\* ----------------------------------------------------------- specifications
Unused ==
  [pc |-> "unused", schema |-> "S1", model |-> "M1", given |-> [unique |-> JsTrue],
   options |-> InitialDefaults, resp |-> NoResp, joined |-> 0, returned |-> 0,
   finds |-> 0, creates |-> 0]

\* new MongooseAutoIncrementID(schema, modelName, options)
New(s, m, given) == [Unused EXCEPT !.pc = "new", !.schema = s, !.model = m, !.given = given]

\* the state once the instances P have been constructed, over the collection c
InitWith(P, C, F) ==
  /\ defaultOptions = InitialDefaults
  /\ coll \in C
  /\ faults \in F
  /\ readyMap = << >>
  /\ promises = [i \in Inst |-> [status |-> "none", reason |-> NoError]]
  /\ plugin \in P
  /\ preSave = [s \in Schemas |-> <<>>]
  /\ statics = [s \in Schemas |-> << >>]
  /\ doc = [d \in Docs |-> IdleDoc]
  /\ call = NoCall
  /\ hist = [sk \in ScopeKeys |-> NoHist]

Next ==
  \/ \E i \in Inst : ApplyPlugin(i)
  \/ \E i \in Inst : InitFindOneExec(i)
  \/ \E i \in Inst : InitThen(i)
  \/ \E i \in Inst : InitCreateExec(i)
  \/ \E i \in Inst : InitCreated(i)
  \/ \E i \in Inst : InitCatch(i)
  \/ \E d \in Docs, s \in Schemas, new \in BOOLEAN, f \in FieldNames, v \in GivenValues :
       Save(d, s, new, f, v)
  \/ \E d \in Docs : SaveFn(d)
  \/ \E d \in Docs : NextImmediate(d)
  \/ \E d \in Docs : NextError(d)
  \/ \E d \in Docs : OnSaveNumberFieldExec(d)
  \/ \E d \in Docs : OnSaveNumberFieldThen(d)
  \/ \E d \in Docs : OnSaveAnyFieldExec(d)
  \/ \E d \in Docs : OnSaveAnyFieldThen(d)
  \/ \E d \in Docs : SaveCatch(d)
  \/ \E i \in Inst : nextCount(i)
  \/ \E i \in Inst : resetCount(i)

\* the steps of a run without backend failures
NextAlloc ==
  \/ \E i \in Inst : ApplyPlugin(i)
  \/ \E i \in Inst : InitFindOneExec(i)
  \/ \E i \in Inst : InitThen(i)
  \/ \E i \in Inst : InitCreateExec(i)
  \/ \E i \in Inst : InitCreated(i)
  \/ \E i \in Inst : InitCatch(i)
  \/ \E d \in Docs, s \in Schemas, new \in BOOLEAN, f \in FieldNames, v \in GivenValues :
       Save(d, s, new, f, v)
  \/ \E d \in Docs : SaveFn(d)
  \/ \E d \in Docs : NextImmediate(d)
  \/ \E d \in Docs : NextError(d)
  \/ \E d \in Docs : OnSaveNumberFieldExec(d)
  \/ \E d \in Docs : OnSaveNumberFieldThen(d)
  \/ \E d \in Docs : OnSaveAnyFieldExec(d)
  \/ \E d \in Docs : OnSaveAnyFieldThen(d)
  \/ \E i \in Inst : nextCount(i)
  \/ \E i \in Inst : resetCount(i)

\* registration and the accessors alone: no document is saved
NextReg ==
  \/ \E i \in Inst : ApplyPlugin(i)
  \/ \E i \in Inst : InitFindOneExec(i)
  \/ \E i \in Inst : InitThen(i)
  \/ \E i \in Inst : InitCreateExec(i)
  \/ \E i \in Inst : InitCreated(i)
  \/ \E i \in Inst : InitCatch(i)
  \/ \E i \in Inst : nextCount(i)
  \/ \E i \in Inst : resetCount(i)

\* ... and with the counter documents deleted from outside at any moment
NextExt == NextAlloc \/ cleanIdCount

\* one allocator: instance 1 on (S1, M1); further instances are not constructed
StepChoices == {<<1, 1>>, <<5, 2>>, <<1, -1>>, <<1, 0>>}

OneAllocator(steps) ==
  {[i \in Inst |-> IF i = 1
      THEN New("S1", "M1", [startAt |-> Num(sc[1]), incrementBy |-> Num(sc[2])])
      ELSE Unused] : sc \in steps}

\* two instances for the same schema and model name
TwoRegistrations ==
  {[i \in Inst |-> IF i <= 2
      THEN New("S1", "M1", [startAt |-> Num(sc[i][1]), incrementBy |-> Num(sc[i][2])])
      ELSE Unused] : sc \in {<<1, 1>>, <<5, 2>>} \X {<<1, 1>>, <<5, 2>>}}

InitAlloc == InitWith(OneAllocator(StepChoices), {<<>>}, {0})
InitFaulty == InitWith(OneAllocator({<<1, 1>>, <<5, 2>>}), {<<>>}, {MaxFaults})
InitExt == InitWith(OneAllocator({<<1, 1>>}), {<<>>}, {0})
InitReg == InitWith(TwoRegistrations, {<<>>}, {MaxFaults})

\* one allocator, no backend failure
SpecAlloc == InitAlloc /\ [][NextAlloc]_vars
\* one allocator, backend failures
Spec == InitFaulty /\ [][Next]_vars
\* one allocator, counter documents deleted from outside
SpecExt == InitExt /\ [][NextExt]_vars
\* the same schema and model registered twice
SpecReg == InitReg /\ [][NextReg]_vars

\* option objects a caller may pass: each of the five validated options right or
\* wrong, and the accessors switched off
OptionChoices ==
  {[field |-> a, incrementBy |-> b, nextCount |-> c, resetCount |-> d, startAt |-> e] :
     a \in {Str("_id"), Num(5)}, b \in {Num(1), Str("1")},
     c \in {Str("_nextCount"), JsTrue}, d \in {Str("_resetCount"), Num(0)},
     e \in {Num(1), Str("1")}}
  \cup {[nextCount |-> JsFalse], [resetCount |-> JsFalse],
        [nextCount |-> JsFalse, resetCount |-> JsFalse, startAt |-> Undefined]}

\* one instance constructed with any arguments, its registration, the accessors and
\* the observers
NextConf ==
  \/ \E s \in SchemaArgs, m \in ModelArgs, given \in OptionChoices :
       Construct(1, s, m, given)
  \/ \E i \in Inst : ApplyPlugin(i)
  \/ \E i \in Inst : InitFindOneExec(i)
  \/ \E i \in Inst : InitThen(i)
  \/ \E i \in Inst : InitCreateExec(i)
  \/ \E i \in Inst : InitCreated(i)
  \/ \E i \in Inst : InitCatch(i)
  \/ \E i \in Inst : nextCount(i)
  \/ \E i \in Inst : resetCount(i)
  \/ \E s \in Schemas, m \in ModelNames : Observe(s, m)

InitConf == InitWith({[i \in Inst |-> Unused]}, {<<>>}, {MaxFaults})

\* nothing constructed yet; any arguments, any options
SpecConf == InitConf /\ [][NextConf]_vars

\* one allocator on (S1, M1) whose options are drawn from G
OneAllocatorWith(G) ==
  {[i \in Inst |-> IF i = 1 THEN New("S1", "M1", g) ELSE Unused] : g \in G}

\* every step, and saves on a schema that got no hook
NextFail ==
  \/ Next
  \/ \E d \in Docs, s \in Schemas, f \in FieldNames, v \in GivenValues : SaveNoHook(d, s, f, v)

InitFail ==
  InitWith(OneAllocatorWith({[startAt |-> Num(1), incrementBy |-> Num(1)],
                             [incrementBy |-> Str("1")]}),
           {<<>>}, {MaxFaults})

\* one allocator, with right or wrong options, and backend failures
SpecFail == InitFail /\ [][NextFail]_vars

\* timers fire and the database answers: every step of a save that stays possible
\* is taken
SaveFairness ==
  \A d \in Docs :
    /\ WF_vars(SaveFn(d))
    /\ WF_vars(OnSaveNumberFieldExec(d))
    /\ WF_vars(OnSaveNumberFieldThen(d))
    /\ WF_vars(OnSaveAnyFieldExec(d))
    /\ WF_vars(OnSaveAnyFieldThen(d))

\* one allocator, no backend failure, fair scheduling of the saves
SpecLive == InitExt /\ [][NextAlloc]_vars /\ SaveFairness

\* arguments of setDefaults: none (the parameter's default, {}), valid ones, invalid ones
DefaultChoices ==
  {<< >>, [field |-> Str("seq")], [field |-> Num(5)],
   [startAt |-> Num(5), incrementBy |-> Num(2)], [incrementBy |-> Str("1")],
   [nextCount |-> JsFalse], [startAt |-> Undefined]}

\* the defaults are set and read at any moment; one instance is constructed, with or
\* without options of its own, and registered
NextDef ==
  \/ \E newOpts \in DefaultChoices : setDefaults(newOpts)
  \/ getDefaults
  \/ \E given \in {<< >>, [startAt |-> Num(1)]} :
       Construct(1, SchemaObj("S1"), Str("M1"), given)
  \/ \E i \in Inst : ApplyPlugin(i)
  \/ \E i \in Inst : InitFindOneExec(i)
  \/ \E i \in Inst : InitThen(i)
  \/ \E i \in Inst : InitCreateExec(i)
  \/ \E i \in Inst : InitCreated(i)
  \/ \E i \in Inst : InitCatch(i)
  \/ \E i \in Inst : nextCount(i)
  \/ \E i \in Inst : resetCount(i)

\* nothing constructed yet; the defaults change while the program runs
SpecDef == InitConf /\ [][NextDef]_vars

\* two allocators on different schemas, models and steps
TwoScopes ==
  {[i \in Inst |-> IF i = 1 THEN New("S1", "M1", [startAt |-> Num(1), incrementBy |-> Num(1)])
                   ELSE IF i = 2
                   THEN New("S2", "M2", [startAt |-> Num(5), incrementBy |-> Num(2)])
                   ELSE Unused]}

\* registration and the saves of new documents
NextScopes ==
  \/ \E i \in Inst : ApplyPlugin(i)
  \/ \E i \in Inst : InitFindOneExec(i)
  \/ \E i \in Inst : InitThen(i)
  \/ \E i \in Inst : InitCreateExec(i)
  \/ \E i \in Inst : InitCreated(i)
  \/ \E i \in Inst : InitCatch(i)
  \/ \E d \in Docs, s \in Schemas, f \in FieldNames, v \in GivenValues : Save(d, s, TRUE, f, v)
  \/ \E d \in Docs : SaveFn(d)
  \/ \E d \in Docs : NextError(d)
  \/ \E d \in Docs : OnSaveNumberFieldExec(d)
  \/ \E d \in Docs : OnSaveNumberFieldThen(d)
  \/ \E d \in Docs : OnSaveAnyFieldExec(d)
  \/ \E d \in Docs : OnSaveAnyFieldThen(d)
  \/ \E d \in Docs : SaveCatch(d)

InitScopes == InitWith(TwoScopes, {<< >>}, {MaxFaults})

\* two allocators with scopes of their own, backend failures
SpecScopes == InitScopes /\ [][NextScopes]_vars

InitDel == InitWith(OneAllocator({<<5, 2>>}), {<< >>}, {0})

\* one allocator with startAt 5 and incrementBy 2, counter documents deleted from outside
SpecDel == InitDel /\ [][NextExt]_vars

InitTwice == InitWith(TwoRegistrations, {<< >>}, {0})

\* registration and the saves of new documents, the store answering every query
NextTwice ==
  \/ \E i \in Inst : ApplyPlugin(i)
  \/ \E i \in Inst : InitFindOneExec(i)
  \/ \E i \in Inst : InitThen(i)
  \/ \E i \in Inst : InitCreateExec(i)
  \/ \E i \in Inst : InitCreated(i)
  \/ \E i \in Inst : InitCatch(i)
  \/ \E d \in Docs, s \in Schemas, f \in FieldNames, v \in GivenValues : Save(d, s, TRUE, f, v)
  \/ \E d \in Docs : SaveFn(d)
  \/ \E d \in Docs : NextError(d)
  \/ \E d \in Docs : OnSaveNumberFieldExec(d)
  \/ \E d \in Docs : OnSaveNumberFieldThen(d)
  \/ \E d \in Docs : OnSaveAnyFieldExec(d)
  \/ \E d \in Docs : OnSaveAnyFieldThen(d)

\* the same schema and model registered twice, and new documents saved through the
\* hooks that were added
SpecTwice == InitTwice /\ [][NextTwice]_vars

\* two registrations, the accessors, the save of one new document, and the counter
\* documents deleted from outside
NextAll ==
  \/ NextReg
  \/ \E f \in FieldNames, v \in GivenValues : Save(1, "S1", TRUE, f, v)
  \/ \E d \in Docs : SaveFn(d)
  \/ \E d \in Docs : NextError(d)
  \/ \E d \in Docs : OnSaveNumberFieldExec(d)
  \/ \E d \in Docs : OnSaveNumberFieldThen(d)
  \/ \E d \in Docs : OnSaveAnyFieldExec(d)
  \/ \E d \in Docs : OnSaveAnyFieldThen(d)
  \/ cleanIdCount

\* every writer of the collection at work on one scope
SpecAll == InitTwice /\ [][NextAll]_vars

\* registration, the saves of new documents and resets
NextIndep ==
  \/ NextTwice
  \/ \E i \in Inst : resetCount(i)

InitIndep == InitWith(TwoScopes, {<< >>}, {0})

\* two allocators with scopes of their own, every writer at work
SpecIndep == InitIndep /\ [][NextIndep]_vars

\* values a caller may have put on the field, zero and a negative number among them
ExplicitValues == {Undefined, Num(0), Num(-3), Num(2)}

\* registration and the saves of new documents holding any of these values
NextValues ==
  \/ \E i \in Inst : ApplyPlugin(i)
  \/ \E i \in Inst : InitFindOneExec(i)
  \/ \E i \in Inst : InitThen(i)
  \/ \E i \in Inst : InitCreateExec(i)
  \/ \E i \in Inst : InitCreated(i)
  \/ \E d \in Docs, s \in Schemas, f \in FieldNames, v \in ExplicitValues :
       Save(d, s, TRUE, f, v)
  \/ \E d \in Docs : SaveFn(d)
  \/ \E d \in Docs : OnSaveNumberFieldExec(d)
  \/ \E d \in Docs : OnSaveNumberFieldThen(d)
  \/ \E d \in Docs : OnSaveAnyFieldExec(d)
  \/ \E d \in Docs : OnSaveAnyFieldThen(d)

\* one allocator, new documents with zero, negative and positive explicit values
SpecValues == InitAlloc /\ [][NextValues]_vars

\* every step, and a next() that throws when a then-callback invokes it
NextRaise ==
  \/ Next
  \/ \E d \in Docs : OnSaveNumberFieldThenRaises(d)
  \/ \E d \in Docs : OnSaveAnyFieldThenRaises(d)
  \/ \E d \in Docs : CatchRaised(d)

\* one allocator, backend failures, completion callbacks that may throw
SpecRaise == InitFaulty /\ [][NextRaise]_vars

\* the counter document of (_id, M1) as the test creates it before registering:
\* getModel().create({f: '_id', m: name, c: 1})
SeededColl == <<[f |-> "_id", m |-> "M1", c |-> 1]>>

\* one allocator registered on a collection that may already hold its counter
\* document
InitSeeded == InitWith(OneAllocator(StepChoices), {<< >>, SeededColl}, {0})
SpecSeeded == InitSeeded /\ [][NextAlloc]_vars

\* explicit values on either side of the stored counter of the allocators below
CollidingValues == {Undefined, Num(1), Num(7)}

\* registration and the saves of new documents holding any of these values; no
\* resetCount, no nextCount
NextExplicit ==
  \/ \E i \in Inst : ApplyPlugin(i)
  \/ \E i \in Inst : InitFindOneExec(i)
  \/ \E i \in Inst : InitThen(i)
  \/ \E i \in Inst : InitCreateExec(i)
  \/ \E i \in Inst : InitCreated(i)
  \/ \E d \in Docs, s \in Schemas, f \in FieldNames, v \in CollidingValues :
       Save(d, s, TRUE, f, v)
  \/ \E d \in Docs : SaveFn(d)
  \/ \E d \in Docs : OnSaveNumberFieldExec(d)
  \/ \E d \in Docs : OnSaveNumberFieldThen(d)
  \/ \E d \in Docs : OnSaveAnyFieldExec(d)
  \/ \E d \in Docs : OnSaveAnyFieldThen(d)

\* one allocator counting down: startAt 1, incrementBy -1
InitDown == InitWith(OneAllocator({<<1, -1>>}), {<< >>}, {0})
SpecDown == InitDown /\ [][NextExplicit]_vars

\* one allocator counting up
InitUp == InitWith(OneAllocator({<<1, 1>>, <<5, 2>>}), {<< >>}, {0})
SpecUp == InitUp /\ [][NextExplicit]_vars

\* defaults set while the allocators below are at work: one accepted, one refused
StableDefaults == {[nextCount |-> JsFalse], [incrementBy |-> Str("1")]}

\* two registrations of (S1, M1), the accessors, setDefaults and the saves of one
\* new document
NextStable ==
  \/ NextReg
  \/ \E newOpts \in StableDefaults : setDefaults(newOpts)
  \/ \E f \in FieldNames, v \in GivenValues : Save(1, "S1", TRUE, f, v)
  \/ \E d \in Docs : SaveFn(d)
  \/ \E d \in Docs : NextError(d)
  \/ \E d \in Docs : OnSaveNumberFieldExec(d)
  \/ \E d \in Docs : OnSaveNumberFieldThen(d)
  \/ \E d \in Docs : OnSaveAnyFieldExec(d)
  \/ \E d \in Docs : OnSaveAnyFieldThen(d)

InitStable ==
  InitWith({[i \in Inst |-> IF i = 1
               THEN New("S1", "M1", [startAt |-> Num(1), incrementBy |-> Num(1)])
               ELSE IF i = 2
               THEN New("S1", "M1", [startAt |-> Num(5), incrementBy |-> Num(2)])
               ELSE Unused]},
           {<< >>}, {0})
SpecStable == InitStable /\ [][NextStable]_vars

\* ------------------------------------------------------------------ claims
\* document d holds the answer of an auto-allocation whose callback has not run
InFlightAuto(d) == doc[d].pc = "anyResp" /\ doc[d].resp.ok
AutoScope(d) == ScopeOf(doc[d].auto.by)
AutoStep(d) == IncrementBy(doc[d].auto.by)

\* C1: with a non-zero incrementBy, an auto-allocation never returns a value that an
\* earlier auto-allocation of the same scope returned, as long as no reset (and no
\* explicit value) came in between
C1_NoDuplicateAllocation ==
  \A d \in Docs :
    InFlightAuto(d) /\ AutoStep(d) # 0 => doc[d].auto.value \notin doc[d].auto.seen

C1_Witness ==
  \E d, e \in Docs :
    /\ d # e /\ InFlightAuto(d) /\ InFlightAuto(e)
    /\ AutoStep(d) # 0
    /\ doc[e].auto.value \in doc[d].auto.seen

\* C2: two increments by 1 in flight at once, the first served on a stored 0 or on no
\* counter document and the second served next, return 1 and 2, and 2 is stored
C2_TwoIncrements ==
  \A d1, d2 \in Docs :
    ( /\ d1 # d2 /\ InFlightAuto(d1) /\ InFlightAuto(d2)
      /\ AutoScope(d1) = AutoScope(d2)
      /\ AutoStep(d1) = 1 /\ AutoStep(d2) = 1
      /\ doc[d1].auto.from = 0
      /\ doc[d2].auto.seen = {doc[d1].auto.value} )
    => /\ doc[d1].auto.value = 1
       /\ doc[d2].auto.value = 2
       /\ hist[AutoScope(d1)].issued = {doc[d1].auto.value, doc[d2].auto.value}
            => Found(coll, AutoScope(d1)[1], AutoScope(d1)[2])
                 = <<[f |-> AutoScope(d1)[1], m |-> AutoScope(d1)[2], c |-> 2]>>

C2_Witness ==
  \E d1, d2 \in Docs :
    /\ d1 # d2 /\ InFlightAuto(d1) /\ InFlightAuto(d2)
    /\ AutoStep(d1) = 1
    /\ ~doc[d1].auto.had /\ doc[d1].auto.from = 0
    /\ doc[d2].auto.seen = {doc[d1].auto.value}
    /\ hist[AutoScope(d1)].issued = {doc[d1].auto.value, doc[d2].auto.value}

\* C3: on a counter document created by init() or just reset, the n-th
\* auto-allocation returns startAt + (n - 1) * incrementBy
C3_SequenceFromStart ==
  \A d \in Docs :
    InFlightAuto(d) /\ doc[d].auto.ord >= 1
      => doc[d].auto.value
           = StartAt(doc[d].auto.by) + (doc[d].auto.ord - 1) * AutoStep(d)

C3_Witness ==
  \E d, e \in Docs :
    /\ d # e
    /\ doc[e].given["_id"] = Undefined /\ doc[e].val["_id"] = Num(5)
    /\ call.kind = "reset" /\ call.ok
    /\ InFlightAuto(d) /\ doc[d].auto.ord = 1 /\ doc[d].auto.value = 5
    /\ AutoStep(d) = 2

\* C4: with a positive incrementBy, an auto-allocation served after an explicit
\* value v was synchronised, with no reset since, returns at least v + incrementBy
C4_AboveExplicitValue ==
  \A d \in Docs :
    InFlightAuto(d) /\ doc[d].auto.hasFloor /\ AutoStep(d) > 0
      => doc[d].auto.value >= doc[d].auto.floor + AutoStep(d)

C4_Witness ==
  \E d, e \in Docs :
    /\ d # e
    /\ doc[e].given["_id"] = Num(10) /\ doc[e].pc = "saved" /\ doc[e].isNew
    /\ InFlightAuto(d) /\ doc[d].auto.hasFloor /\ doc[d].auto.floor = 10
    /\ doc[d].auto.from = 10 /\ AutoStep(d) = 2 /\ doc[d].auto.value = 12

\* the step in which the database serves document d's explicit-value update
NumberServed(d) ==
  doc[d].pc = "numSent" /\ doc'[d].pc = "numResp" /\ doc'[d].resp.ok

\* C5: an explicit value at or below the stored counter leaves the collection as it
\* was, and with it the answers of nextCount and of the next auto-allocation
C5_LowExplicitValueIsNoOp ==
  [][\A d \in Docs :
       LET i == Hook(d)
           f == Field(i)
           m == Model(i)
       IN  ( /\ NumberServed(d)
             /\ FindOne(coll, f, m) # 0
             /\ doc[d].val[f].n <= Stored(coll, f, m) )
           => /\ coll' = coll
              /\ NextCountValue(Found(coll', f, m), plugin[i].options)
                   = NextCountValue(Found(coll, f, m), plugin[i].options)
              /\ IncAndFetch(coll', f, m, IncrementBy(i)).value
                   = IncAndFetch(coll, f, m, IncrementBy(i)).value]_vars

C5_Witness ==
  \E d \in Docs :
    /\ doc[d].pc = "numResp" /\ doc[d].resp.ok /\ doc[d].isNew
    /\ doc[d].val["_id"] = Num(2)
    /\ StartAt(1) = 5
    /\ Stored(coll, "_id", "M1") = 3
    /\ \A e \in Docs : e # d => doc[e].pc = "idle"

\* C6: the save of a document that is not new sends no query, leaves the collection
\* and the document's fields alone, never waits and never fails
C6_NotNewIsSkipped ==
  [][\A d \in Docs :
       /\ (~doc'[d].isNew /\ doc'[d].pc # "idle")
            => /\ doc'[d].pc \in {"nextQueued", "saved"}
               /\ doc'[d].calls = 0
               /\ doc'[d].val = doc'[d].given
               /\ doc'[d].error = NoError
               /\ doc'[d] # doc[d] => coll' = coll
       /\ (~doc[d].isNew /\ doc[d].pc = "nextQueued") => ENABLED NextImmediate(d)]_vars

C6_Witness ==
  \E d \in Docs :
    /\ ~doc[d].isNew /\ doc[d].pc = "saved"
    /\ getErrorFor(readyMap, "S1", "M1") # NoError
    /\ \E e \in Docs : doc[e].pc = "failed"

\* C7: nextCount leaves the collection as it was, and answers what the previous
\* nextCount answered when no insertion and no reset came in between
C7_NextCountReadsOnly ==
  [][\A i \in Inst :
       nextCount(i)
         => /\ coll' = coll
            /\ (call'.ok /\ hist[ScopeOf(i)].hasNext)
                 => call'.value = hist[ScopeOf(i)].next]_vars

C7_Witness ==
  /\ call.kind = "next" /\ call.ok
  /\ hist[<<"_id", "M1">>].hasNext
  /\ coll # <<>>
  /\ call.value = Stored(coll, "_id", "M1") + IncrementBy(1)
  /\ \E d \in Docs : doc[d].pc = "saved" /\ doc[d].isNew /\ doc[d].given["_id"] = Undefined

\* C8: resetCount leaves exactly one counter document for the scope, holding
\* startAt - incrementBy, and returns startAt; a nextCount served while the reset is
\* the last write to the scope returns startAt
C8_ResetThenNext ==
  [][\A i \in Inst :
       /\ (resetCount(i) /\ call'.ok)
            => /\ Found(coll', Field(i), Model(i))
                    = <<[f |-> Field(i), m |-> Model(i), c |-> StartAt(i) - IncrementBy(i)]>>
               /\ Cardinality(Matching(coll', Field(i), Model(i))) = 1
               /\ call'.value = StartAt(i)
       /\ (nextCount(i) /\ call'.ok /\ hist[ScopeOf(i)].afterReset)
            => call'.value = StartAt(i)]_vars

C8_Witness ==
  /\ call.kind = "next" /\ call.ok /\ call.value = StartAt(1)
  /\ hist[<<"_id", "M1">>].afterReset
  /\ \E d \in Docs : doc[d].pc = "saved" /\ doc[d].isNew /\ doc[d].given["_id"] = Undefined
                     /\ doc[d].val["_id"].n # Stored(coll, "_id", "M1")

\* instance j was registered for a schema and model whose earlier registration,
\* by instance i, had not settled
JoinedInFlight(i, j) ==
  /\ i # j
  /\ plugin[j].pc \notin {"unused", "new"}
  /\ plugin[j].joined = i

\* C9: a registration made while another registration of the same schema and model
\* is in flight causes no second findOne and no second create
C9_OneProvisioningAttempt ==
  \A i, j \in Inst :
    JoinedInFlight(i, j)
      => /\ plugin[i].finds + plugin[j].finds <= 1
         /\ plugin[i].creates + plugin[j].creates <= 1

\* C10: a registration made while another registration of the same schema and model
\* is in flight returns that registration's promise, and getPromiseFor keeps
\* answering it
C10_AttachesToInFlight ==
  \A i, j \in Inst :
    JoinedInFlight(i, j)
      => /\ plugin[j].returned = i
         /\ getPromiseFor(readyMap, plugin[j].schema, plugin[j].model) = i

\* C11: once the error of a schema and model is set, its ready flag never becomes
\* true afterwards, whatever is done later, further registrations included
C11_FailedIsTerminal ==
  [][\A s \in Schemas, m \in ModelNames :
       (getErrorFor(readyMap, s, m) # NoError /\ ~isReady(readyMap, s, m))
         => ~isReady(readyMap', s, m)]_vars

\* C12: once the allocator of a schema has failed, by a validation error or by a store
\* failure of init(), every step of the save of a new document of that schema heads
\* for failure with 'The initialisation promise rejected': it sends no query and
\* leaves the collection alone
C12_FailedAllocatorFailsSaves ==
  [][\A d \in Docs, i \in Inst :
       ( /\ plugin[i].pc # "unused"
         /\ InstanceError(i) # NoError
         /\ doc'[d].schema = plugin[i].schema
         /\ doc'[d].isNew
         /\ doc'[d] # doc[d] )
       => /\ doc'[d].pc \in {"saveQueued", "errQueued", "failed"}
          /\ doc'[d].calls = 0
          /\ doc'[d].pc = "failed" => doc'[d].error = SaveError
          /\ coll' = coll]_vars

\* C13: the save of a new document that found the allocator neither ready nor failed
\* and waited is completed once the allocator is ready
C13_WaitingSaveCompletes ==
  \A d \in Docs :
    (doc[d].isNew /\ doc[d].retries >= 1 /\ isReady(readyMap, "S1", "M1"))
      ~> (doc[d].pc = "saved")

C13_Witness ==
  \E d \in Docs :
    /\ doc[d].isNew /\ doc[d].retries >= 1 /\ doc[d].pc = "saved"
    /\ doc[d].given["_id"] = Undefined /\ doc[d].val["_id"].type = "number"

\* C14: while the allocator is neither ready nor failed, the save of a new document
\* stays where it is, however often it has retried: next is not called, neither
\* with nor without an error, and the document is left alone
C14_NoRetryCeiling ==
  [][\A d \in Docs :
       ( /\ doc[d].pc = "saveQueued" /\ doc[d].isNew
         /\ ~InstanceIsReady(Hook(d))
         /\ InstanceError(Hook(d)) = NoError )
       => /\ doc'[d].pc = "saveQueued"
          /\ doc'[d].error = NoError
          /\ doc'[d].val = doc[d].val
          /\ doc'[d].k = doc[d].k]_vars

C14_Witness ==
  \E d \in Docs :
    /\ doc[d].pc = "saveQueued" /\ doc[d].isNew
    /\ doc[d].retries = MaxRetries
    /\ ~InstanceIsReady(Hook(d))
    /\ InstanceError(Hook(d)) = NoError
    /\ ENABLED SaveFn(d)

\* the create() of instance i was refused for a duplicate key and its callbacks ran
CreateCollided(i) ==
  /\ plugin[i].pc \notin {"unused", "new", "createResp"}
  /\ plugin[i].resp.error.message = "E11000 duplicate key"

\* C15: a create() of init() that collides with another creator of the same counter
\* document still ends with the allocator ready, the promise fulfilled and no error
C15_DuplicateKeyIsBenign ==
  \A i \in Inst :
    CreateCollided(i)
      => /\ InstanceIsReady(i)
         /\ promises[i].status = "fulfilled"
         /\ InstanceError(i) = NoError

\* the order in which the options are to be checked, what makes each one invalid and
\* the message that names it
CheckOrder == <<"field", "incrementBy", "nextCount", "resetCount", "startAt">>

InvalidOption(o, k) ==
  CASE k = "field" -> o[k].type # "string"
    [] k \in {"incrementBy", "startAt"} -> o[k].type # "number"
    [] OTHER -> o[k].type # "string" /\ o[k] # JsFalse

NamingMessage ==
  [field |-> "field must be a string",
   incrementBy |-> "incrementBy must be a number",
   nextCount |-> "nextCount must be a string or false",
   resetCount |-> "resetCount must be a string or false",
   startAt |-> "startAt must be a number"]

FirstInvalid(o) ==
  LET bad == {n \in 1..Len(CheckOrder) : InvalidOption(o, CheckOrder[n])}
  IN  IF bad = {} THEN 0 ELSE CHOOSE n \in bad : \A n2 \in bad : n <= n2

\* C16: applyPlugin() of an instance with invalid options rejects with a TypeError
\* naming the first invalid option in the order field, incrementBy, nextCount,
\* resetCount, startAt; with valid options no TypeError is raised
C16_FirstInvalidOptionNamed ==
  \A i \in Inst :
    plugin[i].pc \notin {"unused", "new", "threw"}
      => LET n == FirstInvalid(plugin[i].options)
         IN  IF n = 0
               THEN /\ promises[i].reason.name # "TypeError"
                    /\ InstanceError(i).name # "TypeError"
               ELSE /\ plugin[i].pc = "rejected"
                    /\ promises[i].status = "rejected"
                    /\ promises[i].reason = TypeError(NamingMessage[CheckOrder[n]])
                    /\ InstanceError(i) = promises[i].reason

C16_Witness ==
  \E i \in Inst :
    /\ plugin[i].pc = "rejected"
    /\ ~InvalidOption(plugin[i].options, "field")
    /\ ~InvalidOption(plugin[i].options, "incrementBy")
    /\ InvalidOption(plugin[i].options, "nextCount")
    /\ InvalidOption(plugin[i].options, "startAt")
    /\ promises[i].reason = TypeError("nextCount must be a string or false")

\* C17: the constructor throws exactly for a schema that is no Schema and for a model
\* name that is missing or no string; applyPlugin() always returns a promise, and
\* invalid options and failures of init() end in a rejected promise and a recorded
\* error, with the ready flag not set
C17_FailuresAreRejections ==
  [][\A i \in Inst :
       /\ (plugin[i].pc = "unused" /\ plugin'[i].pc # "unused")
            => \E s \in SchemaArgs, m \in ModelArgs, given \in OptionChoices :
                  /\ Construct(i, s, m, given)
                  /\ plugin'[i].pc = "threw"
                       <=> (s.type # "Schema" \/ m \notin {Str(x) : x \in ModelNames})
       /\ (plugin[i].pc = "new" /\ plugin'[i].pc # "new")
            => /\ plugin'[i].pc # "threw"
               /\ plugin'[i].returned = i
               /\ promises'[i].status \in {"pending", "rejected"}
               /\ FirstInvalid(plugin'[i].options) # 0
                    => /\ promises'[i].status = "rejected"
                       /\ promises'[i].reason # NoError
                       /\ getErrorFor(readyMap', plugin[i].schema, plugin[i].model)
                            = promises'[i].reason
                       /\ ~isReady(readyMap', plugin[i].schema, plugin[i].model)
       /\ (plugin[i].pc \in {"findResp", "createResp"} /\ ~plugin[i].resp.ok
             /\ plugin'[i] # plugin[i])
            => /\ promises'[i].status = "rejected"
               /\ promises'[i].reason = plugin[i].resp.error
               /\ getErrorFor(readyMap', plugin[i].schema, plugin[i].model)
                    = plugin[i].resp.error
               /\ ~isReady(readyMap', plugin[i].schema, plugin[i].model)]_vars

C17_Witness ==
  \E i \in Inst :
    /\ plugin[i].pc = "rejected"
    /\ plugin[i].returned = i
    /\ promises[i].status = "rejected"
    /\ promises[i].reason.name = "MongoError"
    /\ InstanceError(i) = promises[i].reason
    /\ ~InstanceIsReady(i)

\* no applyPlugin() was ever called for schema s and model name m
NeverRegistered(s, m) ==
  \A i \in Inst :
    plugin[i].pc \in {"unused", "new", "threw"} \/ plugin[i].schema # s \/ plugin[i].model # m

\* C18: the static observers write nothing, and for a schema and model name that were
\* never registered they answer undefined, undefined and false
C18_ObserversReportAbsence ==
  [][\A s \in Schemas, m \in ModelNames :
       Observe(s, m)
         => /\ readyMap' = readyMap
            /\ UNCHANGED <<promises, plugin, coll, preSave, statics>>
            /\ NeverRegistered(s, m)
                 => /\ call'.error = NoError
                    /\ call'.promise = 0
                    /\ ~call'.ready]_vars

C18_Witness ==
  /\ call.kind = "observe" /\ call.schema = "S1" /\ call.model = "M2"
  /\ call.error = NoError /\ call.promise = 0 /\ ~call.ready
  /\ \E i \in Inst : /\ plugin[i].schema = "S1" /\ plugin[i].model = "M1"
                     /\ plugin[i].pc = "rejected"
                     /\ InstanceError(i) # NoError
  /\ NeverRegistered("S1", "M2")
  /\ HasState(readyMap, "S1", "M1") /\ ~HasState(readyMap, "S1", "M2")

\* C19: once applyPlugin() was called on an instance, the promise it returned, the
\* instance's promise getter and getPromiseFor(schema, model) are one promise; until
\* then the instance's promise getter answers undefined
C19_OnePromise ==
  \A i \in Inst :
    /\ plugin[i].pc \notin {"unused", "new", "threw"}
         => /\ InstancePromise(i) = plugin[i].returned
            /\ getPromiseFor(readyMap, plugin[i].schema, plugin[i].model) = plugin[i].returned
    /\ plugin[i].pc = "new" => InstancePromise(i) = 0

\* C20: the error recorded for a schema and model is the error the promise of a failed
\* registration rejected with, for every later observer; it is undefined while no
\* registration has failed
C20_OneErrorReplayed ==
  \A i \in Inst :
    /\ promises[i].status = "rejected"
         => /\ getErrorFor(readyMap, plugin[i].schema, plugin[i].model) = promises[i].reason
            /\ InstanceError(i) = promises[i].reason
    /\ (\A j \in Inst : promises[j].status # "rejected") => InstanceError(i) = NoError

\* instance j is registered for the schema and model of instance i
SamePair(i, j) ==
  /\ plugin[j].pc \notin {"unused", "new", "threw"}
  /\ plugin[j].schema = plugin[i].schema /\ plugin[j].model = plugin[i].model

\* C21: the ready flag of a schema and model is true exactly when a registration of
\* them has completed its provisioning: it is false from applyPlugin() on, it is set
\* by the callback of a findOne that found the counter document or of a create() that
\* stored it, and the promise is fulfilled in that same step and never without it
C21_ReadyWhenProvisioned ==
  [][\A i \in Inst :
       LET s == plugin[i].schema
           m == plugin[i].model
       IN  /\ plugin'[i].pc \notin {"unused", "new", "threw"}
                => (isReady(readyMap', s, m)
                      <=> \E j \in Inst : SamePair(i, j)' /\ plugin'[j].pc = "ready")
           /\ promises'[i].status = "fulfilled"
                <=> (plugin'[i].pc = "ready" /\ isReady(readyMap', s, m))
           /\ (plugin[i].pc # "ready" /\ plugin'[i].pc = "ready")
                => /\ plugin[i].resp.ok
                   /\ \/ plugin[i].pc = "findResp" /\ plugin[i].resp.found
                      \/ plugin[i].pc = "createResp" /\ plugin[i].creates = 1
           /\ (plugin[i].pc = "findOne" /\ plugin'[i].pc = "findResp" /\ plugin'[i].resp.found)
                => FindOne(coll, Field(i), Model(i)) # 0
           /\ (plugin[i].pc = "create" /\ plugin'[i].pc = "createResp" /\ plugin'[i].resp.ok)
                => /\ FindOne(coll, Field(i), Model(i)) = 0
                   /\ FindOne(coll', Field(i), Model(i)) # 0]_vars

C21_Witness ==
  \E i \in Inst, d \in Docs :
    /\ plugin[i].pc = "ready" /\ plugin[i].creates = 1
    /\ promises[i].status = "fulfilled"
    /\ InstanceIsReady(i)
    /\ doc[d].isNew /\ doc[d].retries >= 1 /\ doc[d].pc = "saved"

\* C22: setDefaults with an argument that makes the merged defaults invalid throws the
\* TypeError of the first invalid option and leaves the defaults as they were; with a
\* valid argument the merged options become the defaults, getDefaults answers them and
\* an instance whose options are resolved afterwards takes them for every option it
\* was not given; without an argument nothing changes
C22_SetDefaultsValidates ==
  [][/\ \A newOpts \in DefaultChoices :
          setDefaults(newOpts)
            => LET merged == Assign(defaultOptions, newOpts)
                   n == FirstInvalid(merged)
               IN  /\ n # 0 => /\ ~call'.ok
                                /\ call'.error = TypeError(NamingMessage[CheckOrder[n]])
                                /\ defaultOptions' = defaultOptions
                   /\ n = 0 => /\ call'.ok
                                /\ defaultOptions' = merged
                   /\ newOpts = << >> => call'.ok /\ defaultOptions' = defaultOptions
     /\ getDefaults => call'.defaults = defaultOptions /\ defaultOptions' = defaultOptions
     /\ FirstInvalid(defaultOptions') = 0
     /\ \A i \in Inst :
          (plugin[i].pc = "new" /\ plugin'[i].pc # "new")
            => \A k \in OptionKeys \ (DOMAIN plugin[i].given \cup {"unique"}) :
                  plugin'[i].options[k] = defaultOptions[k]]_vars

C22_Witness ==
  /\ call.kind = "setDefaults" /\ ~call.ok
  /\ call.error = TypeError("field must be a string")
  /\ defaultOptions # InitialDefaults
  /\ defaultOptions["startAt"] = Num(5) /\ defaultOptions["field"] = Str("seq")
  /\ \E i \in Inst :
       /\ plugin[i].pc = "ready" /\ "startAt" \notin DOMAIN plugin[i].given
       /\ StartAt(i) = 5 /\ IncrementBy(i) = 2
       /\ Stored(coll, Field(i), Model(i)) = 3

\* the save of document d has failed with an error of the store
StoreFailed(d) == doc[d].pc = "failed" /\ doc[d].error.name = "MongoError"

\* C23: a query of a save that the store fails, and the callback that receives the
\* failure, leave the collection, every ReadyState and every other save alone; the
\* save ends failed with that error and is not run again; and an auto-allocation
\* served after such a failure, for the same scope or another one, still returns the
\* stored value plus incrementBy and stores it
C23_StoreFailureIsLocal ==
  [][\A d \in Docs :
       /\ ( /\ doc[d].pc \in {"numSent", "anySent"}
             /\ doc'[d].pc \in {"numResp", "anyResp"}
             /\ ~doc'[d].resp.ok )
            => /\ coll' = coll
               /\ readyMap' = readyMap
               /\ \A e \in Docs \ {d} : doc'[e] = doc[e]
       /\ (doc[d].pc \in {"numResp", "anyResp"} /\ ~doc[d].resp.ok /\ doc'[d] # doc[d])
            => /\ doc'[d].pc = "failed"
               /\ doc'[d].error = doc[d].resp.error
               /\ doc'[d].calls = 1
               /\ doc'[d].val = doc[d].given
               /\ coll' = coll
               /\ readyMap' = readyMap
               /\ \A e \in Docs \ {d} : doc'[e] = doc[e]
       /\ StoreFailed(d) => doc'[d] = doc[d]
       /\ \A e \in Docs \ {d} :
            ( /\ StoreFailed(d)
              /\ doc[e].pc = "anySent" /\ doc'[e].pc = "anyResp" /\ doc'[e].resp.ok )
            => LET i == Hook(e)
               IN  /\ InstanceIsReady(i)
                   /\ doc'[e].resp.value = Stored(coll, Field(i), Model(i)) + IncrementBy(i)
                   /\ Stored(coll', Field(i), Model(i)) = doc'[e].resp.value]_vars

C23_Witness ==
  \E d, e \in Docs :
    /\ d < e
    /\ StoreFailed(d) /\ doc[d].schema = "S1" /\ doc[d].given["_id"] = Undefined
    /\ doc[e].pc = "saved" /\ doc[e].schema = "S1" /\ doc[e].given["_id"] = Undefined
    /\ doc[e].val["_id"] = Num(1)
    /\ \A i \in Inst : InstanceIsReady(i) /\ InstanceError(i) = NoError

FirstValues(i, k) == {StartAt(i) + (n - 1) * IncrementBy(i) : n \in 1..k}

\* C25: while the counter document of a scope has seen nothing but auto-allocations
\* since it was created, the values returned so far are startAt, startAt + incrementBy,
\* ... (as many as were returned), and the stored value is the last of them, or
\* startAt - incrementBy when none was returned
C25_EveryIncrementCounts ==
  \A i \in Inst :
    LET h == hist[ScopeOf(i)]
        k == Cardinality(h.issued)
    IN  ( /\ plugin[i].pc \notin {"unused", "new", "threw"}
          /\ h.era = "fresh"
          /\ FindOne(coll, Field(i), Model(i)) # 0 )
        => /\ IncrementBy(i) # 0 => h.issued = FirstValues(i, k)
           /\ IncrementBy(i) = 0 => h.issued \subseteq {StartAt(i)}
           /\ Stored(coll, Field(i), Model(i))
                = IF IncrementBy(i) = 0 THEN StartAt(i)
                  ELSE StartAt(i) + (k - 1) * IncrementBy(i)

C25_Witness ==
  /\ hist[<<"_id", "M1">>].era = "fresh" /\ ~hist[<<"_id", "M1">>].hasFloor
  /\ hist[<<"_id", "M1">>].issued = {5, 7}
  /\ Stored(coll, "_id", "M1") = 7
  /\ plugin[1].pc = "ready" /\ plugin[1].creates = 1
  /\ call.kind = "none"
  /\ \A d \in Docs : doc[d].pc = "saved" /\ doc[d].isNew /\ doc[d].val["_id"].n \in {5, 7}

\* no save is under way
Quiet == \A d \in Docs : doc[d].pc \in {"idle", "saved", "failed"}

\* C26: whenever the allocator is ready and nothing is under way, what nextCount
\* answers is what the next auto-allocation returns, the counter document being
\* there or not
C26_NextCountPredicts ==
  \A i \in Inst :
    (plugin[i].pc = "ready" /\ Registered("next", i) /\ Quiet)
      => NextCountValue(Found(coll, Field(i), Model(i)), plugin[i].options)
           = IncAndFetch(coll, Field(i), Model(i), IncrementBy(i)).value

\* the database serves the upserting increment of document d
IncrementServed(d) ==
  doc[d].pc = "anySent" /\ doc'[d].pc = "anyResp" /\ doc'[d].resp.ok

\* C27: the upserting increment is sent for a new document whose field holds no
\* number, by the first hook of its scope only; it adds incrementBy to the stored
\* value once; waiting for readiness leaves the collection alone; a save of a new
\* document that was given no value ends with the value of its one increment; and for
\* a document that was given a number no increment is sent
C27_OneIncrementPerInsertion ==
  [][\A d \in Docs :
       /\ IncrementServed(d)
            => LET i == Hook(d)
               IN  /\ doc[d].isNew
                   /\ doc[d].given[Field(i)].type # "number"
                   /\ \A j \in 1..(doc[d].k - 1) : ScopeOf(doc[d].hooks[j]) # ScopeOf(i)
                   /\ Stored(coll', Field(i), Model(i))
                        = Stored(coll, Field(i), Model(i)) + IncrementBy(i)
                   /\ Cardinality(Matching(coll', Field(i), Model(i))) = 1
                   /\ \A e \in Docs \ {d} : ~IncrementServed(e)
       /\ ( /\ doc[d].pc = "saveQueued" /\ doc'[d].pc = "saveQueued"
             /\ doc'[d].k = doc[d].k /\ doc'[d] # doc[d] )
            => /\ coll' = coll
               /\ doc'[d].calls = doc[d].calls
       /\ (doc[d].pc = "anyResp" /\ doc'[d] # doc[d])
            => /\ coll' = coll
               /\ doc'[d].val[Field(Hook(d))] = Num(doc[d].resp.value)
               /\ \/ doc'[d].pc = "saved"
                  \/ doc'[d].pc = "saveQueued" /\ doc'[d].k = doc[d].k + 1
       /\ (doc'[d].pc = "saved" /\ doc'[d].isNew)
            => \A k \in 1..Len(doc'[d].hooks) :
                  doc'[d].val[Field(doc'[d].hooks[k])].type = "number"
       /\ (doc[d].pc = "numSent" /\ doc'[d].pc = "numResp")
            => LET i == Hook(d)
               IN  Stored(coll', Field(i), Model(i))
                     \in {Stored(coll, Field(i), Model(i)), doc[d].val[Field(i)].n}]_vars

C27_Witness ==
  \E d \in Docs :
    /\ doc[d].pc = "saved" /\ doc[d].isNew /\ Len(doc[d].hooks) = 2
    /\ doc[d].retries >= 1
    /\ doc[d].given["_id"] = Undefined /\ doc[d].val["_id"] = Num(5)
    /\ doc[d].calls = 2
    /\ IncrementBy(1) = 2 /\ IncrementBy(2) = 1
    /\ Stored(coll, "_id", "M1") = 5
    /\ hist[<<"_id", "M1">>].issued = {5}

\* C28: the collection never holds two counter documents with the same field and
\* model name, whatever the interleaving of init() (findOne, then create), the
\* upserting increments and the upserting resets
C28_OneRecordPerScope ==
  \A sk \in ScopeKeys : Cardinality(Matching(coll, sk[1], sk[2])) <= 1

C28_Witness ==
  /\ Cardinality(Matching(coll, "_id", "M1")) = 1
  /\ Len(coll) = 1
  /\ \E i \in Inst : CreateCollided(i)
  /\ \E i \in Inst : plugin[i].pc = "ready" /\ plugin[i].creates = 1
  /\ call.kind = "reset" /\ call.ok
  /\ doc[1].pc = "saved" /\ doc[1].given["_id"] = Undefined

\* C29: once the error of a schema and model is set, no step changes it: it is neither
\* replaced by another error nor cleared, whatever registrations follow
C29_ErrorSetOnce ==
  [][\A s \in Schemas, m \in ModelNames :
       getErrorFor(readyMap, s, m) # NoError
         => getErrorFor(readyMap', s, m) = getErrorFor(readyMap, s, m)]_vars

\* C30: nextCount answers startAt when its scope has no counter document, and the
\* stored value plus incrementBy when it has one, the step being positive, zero or
\* negative
C30_NextCountFormula ==
  [][\A i \in Inst :
       (nextCount(i) /\ call'.ok)
         => call'.value
              = IF FindOne(coll, Field(i), Model(i)) = 0
                  THEN StartAt(i)
                  ELSE Stored(coll, Field(i), Model(i)) + IncrementBy(i)]_vars

C30_Witness ==
  /\ call.kind = "next" /\ call.ok /\ call.inst = 1
  /\ IncrementBy(1) = -1 /\ StartAt(1) = 1
  /\ Stored(coll, "_id", "M1") = 0 /\ FindOne(coll, "_id", "M1") # 0
  /\ call.value = -1
  /\ hist[<<"_id", "M1">>].hasNext

\* the step is a write to the collection made for scope sk: the create() of a
\* registration, a reset, or the query of a save hook
WriteFor(sk) ==
  \/ \E i \in Inst : /\ plugin[i].pc = "create" /\ plugin'[i].pc = "createResp"
                      /\ ScopeOf(i) = sk
  \/ \E i \in Inst : resetCount(i) /\ ScopeOf(i) = sk
  \/ \E d \in Docs : /\ doc[d].pc \in {"numSent", "anySent"}
                      /\ doc'[d].pc \in {"numResp", "anyResp"}
                      /\ ScopeOf(Hook(d)) = sk

\* C31: the counter document of a scope, its existence and its value, changes only in
\* a step made for that scope: a provisioning, a reset, an allocation or a
\* synchronisation for another scope leaves it as it was
C31_ScopesAreIndependent ==
  [][\A sk \in ScopeKeys :
       Found(coll', sk[1], sk[2]) # Found(coll, sk[1], sk[2]) => WriteFor(sk)]_vars

C31_Witness ==
  /\ Stored(coll, "_id", "M1") = 10
  /\ Stored(coll, "_id", "M2") = 3
  /\ call.kind = "reset" /\ call.inst = 2
  /\ \E d, e \in Docs :
       /\ doc[d].pc = "saved" /\ doc[d].schema = "S1" /\ doc[d].given["_id"] = Num(10)
       /\ doc[e].pc = "saved" /\ doc[e].schema = "S2" /\ doc[e].val["_id"] = Num(5)
       /\ doc[e].given["_id"] = Undefined

\* C32: for a new document whose field holds a number (zero and negative numbers
\* included) the ready hook sends the conditional update with that number and never
\* the increment, and the save ends with the field as the caller set it
C32_NumbersAreExplicit ==
  [][\A d \in Docs :
       LET f == Field(Hook(d))
       IN  (doc[d].pc # "idle" /\ doc[d].isNew /\ doc[d].given[f].type = "number")
           => /\ doc'[d].pc \notin {"anySent", "anyResp"}
              /\ doc'[d].val = doc[d].given
              /\ (doc[d].pc = "saveQueued" /\ InstanceIsReady(Hook(d)) /\ doc'[d] # doc[d])
                   => doc'[d].pc = "numSent"
              /\ (doc[d].pc = "numSent" /\ doc'[d].pc = "numResp")
                   => /\ Stored(coll', f, Model(Hook(d)))
                           = IF Stored(coll, f, Model(Hook(d))) < doc[d].given[f].n
                               THEN doc[d].given[f].n
                               ELSE Stored(coll, f, Model(Hook(d)))
                      /\ hist'[ScopeOf(Hook(d))].issued \subseteq hist[ScopeOf(Hook(d))].issued
              /\ (doc[d].pc = "numResp" /\ doc'[d] # doc[d]) => doc'[d].pc = "saved"]_vars

C32_Witness ==
  \E d, e \in Docs :
    /\ doc[d].pc = "saved" /\ doc[d].isNew /\ doc[d].calls = 1
    /\ doc[d].given["_id"] = Num(0) /\ doc[d].val["_id"] = Num(0)
    /\ doc[e].pc = "saved" /\ doc[e].isNew /\ doc[e].calls = 1
    /\ doc[e].given["_id"] = Num(-3) /\ doc[e].val["_id"] = Num(-3)
    /\ IncrementBy(1) = -1 /\ Stored(coll, "_id", "M1") = 2
    /\ hist[<<"_id", "M1">>].issued = {}

\* document d's hook has a query at the store, or its answer
QuerySent(d) == doc[d].pc \in {"numSent", "anySent", "numResp", "anyResp"}

\* C33: the hook sends its query, the conditional update or the increment, in a run of
\* the save closure that found the ready flag true; while the flag is false a step of
\* the save sends nothing and leaves the collection alone
C33_NoQueryBeforeReady ==
  [][\A d \in Docs :
       /\ (doc'[d].calls # doc[d].calls \/ (QuerySent(d)' /\ ~QuerySent(d)))
            => /\ doc[d].pc = "saveQueued"
               /\ InstanceIsReady(Hook(d))
               /\ doc'[d].calls = doc[d].calls + 1
               /\ doc'[d].pc \in {"numSent", "anySent"}
       /\ QuerySent(d) => InstanceIsReady(Hook(d))
       /\ ( /\ doc[d].pc \notin {"idle", "saved", "failed"}
             /\ ~InstanceIsReady(Hook(d))
             /\ doc'[d] # doc[d] )
            => /\ coll' = coll
               /\ doc'[d].calls = 0
               /\ doc'[d].pc \in {"saveQueued", "errQueued", "nextQueued", "failed", "saved"}]_vars

C33_Witness ==
  \E d \in Docs :
    /\ doc[d].pc = "anySent" /\ doc[d].isNew /\ doc[d].calls = 1
    /\ doc[d].retries >= 1
    /\ InstanceIsReady(Hook(d))
    /\ plugin[Hook(d)].creates = 1
    /\ faults = MaxFaults

\* C34: no schema and model have their ready flag true and their error set at once
C34_ReadyExcludesError ==
  \A s \in Schemas, m \in ModelNames :
    ~(isReady(readyMap, s, m) /\ getErrorFor(readyMap, s, m) # NoError)

\* C35: next is invoked at most once in a hook invocation, whatever path the hook
\* takes, a next() that throws on the success path included
C35_NextAtMostOnce ==
  \A d \in Docs : NextCalls(d) <= 1

\* C36: the explicit-value update of a new document, served when its scope has no
\* counter document, leaves the collection as it was (no document is created), the
\* save goes on to completion, and the next auto-allocation returns what it would
\* have returned without it
C36_ExplicitValueNeedsRecord ==
  [][\A d \in Docs :
       LET i == Hook(d)
           f == Field(i)
           m == Model(i)
       IN  /\ (NumberServed(d) /\ FindOne(coll, f, m) = 0)
                => /\ coll' = coll
                   /\ FindOne(coll', f, m) = 0
                   /\ IncAndFetch(coll', f, m, IncrementBy(i)).value = IncrementBy(i)
           /\ (doc[d].pc = "numResp" /\ doc[d].resp.ok /\ doc'[d] # doc[d])
                => /\ doc'[d].pc = "saved"
                   /\ doc'[d].val = doc[d].given
                   /\ doc'[d].error = NoError]_vars

C36_Witness ==
  \E d, e \in Docs :
    /\ d < e
    /\ doc[d].pc = "saved" /\ doc[d].isNew /\ doc[d].given["_id"] = Num(10)
    /\ InFlightAuto(e) /\ ~doc[e].auto.had
    /\ doc[e].auto.hasFloor /\ doc[e].auto.floor = 10
    /\ doc[e].auto.value = 2
    /\ Stored(coll, "_id", "M1") = 2

\* C37: when init()'s findOne finds the counter document, registration writes
\* nothing to the collection and the then-callback sets the ready flag and fulfils
\* the promise, whatever startAt and incrementBy are; the only write registration
\* makes is create() of a document with c = startAt - incrementBy, and it is made
\* only when the scope has no counter document
C37_ExistingRecordIsKept ==
  [][\A i \in Inst :
       plugin'[i] # plugin[i] =>
         /\ plugin[i].pc \in {"new", "findOne", "findResp", "createResp"} => coll' = coll
         /\ (plugin[i].pc = "findResp" /\ plugin[i].resp.ok /\ plugin[i].resp.found)
              => /\ coll' = coll
                 /\ plugin'[i].pc = "ready"
                 /\ isReady(readyMap', plugin[i].schema, plugin[i].model)
                 /\ promises'[i].status = "fulfilled"
         /\ (plugin[i].pc = "create" /\ coll' # coll)
              => /\ FindOne(coll, Field(i), Model(i)) = 0
                 /\ coll' = Append(coll, [f |-> Field(i), m |-> Model(i),
                                          c |-> StartAt(i) - IncrementBy(i)])]_vars

C37_Witness ==
  \E i \in Inst :
    /\ plugin[i].pc = "ready" /\ plugin[i].resp.found
    /\ StartAt(i) - IncrementBy(i) = 3
    /\ Stored(coll, Field(i), Model(i)) = 1
    /\ isReady(readyMap, plugin[i].schema, plugin[i].model)
    /\ hist[ScopeOf(i)] = NoHist

\* document e completed an insertion with an explicit number on the field of the
\* hook document d is in
CompletedExplicit(e, d) ==
  /\ doc[e].pc = "saved" /\ doc[e].isNew
  /\ doc[e].schema = doc[d].schema
  /\ doc[e].given[Field(Hook(d))].type = "number"

\* C38: with a non-zero incrementBy and no resetCount, the value the upserting
\* increment answers for a document differs from every explicit value of an
\* insertion into the same scope that completed before the increment was served
C38_AutoAvoidsExplicit ==
  [][\A d \in Docs :
       (IncrementServed(d) /\ IncrementBy(Hook(d)) # 0)
         => \A e \in Docs \ {d} :
              CompletedExplicit(e, d)
                => doc'[d].resp.value # doc[e].given[Field(Hook(d))].n]_vars

\* C39: with positive steps, a step that lowers the value of a counter document is
\* a resetCount for its scope; a served upserting increment leaves the stored value
\* greater than it was; a served explicit-value update leaves it as it was or raises
\* it to the given value
C39_CounterOnlyGrows ==
  [][/\ \A sk \in ScopeKeys :
          ( /\ FindOne(coll, sk[1], sk[2]) # 0
            /\ FindOne(coll', sk[1], sk[2]) # 0
            /\ Stored(coll', sk[1], sk[2]) < Stored(coll, sk[1], sk[2]) )
            => \E i \in Inst : resetCount(i) /\ ScopeOf(i) = sk
     /\ \A d \in Docs :
          LET i == Hook(d)
              f == Field(i)
              m == Model(i)
          IN  /\ (IncrementServed(d) /\ IncrementBy(i) > 0)
                   => /\ FindOne(coll', f, m) # 0
                      /\ Stored(coll', f, m) > Stored(coll, f, m)
              /\ (NumberServed(d) /\ FindOne(coll, f, m) # 0)
                   => \/ coll' = coll
                      \/ /\ Stored(coll', f, m) = doc[d].val[f].n
                         /\ Stored(coll', f, m) > Stored(coll, f, m)]_vars

C39_Witness ==
  \E d, e \in Docs :
    /\ d < e
    /\ doc[d].pc = "saved" /\ doc[d].isNew /\ doc[d].given["_id"] = Num(2)
    /\ doc[e].pc = "numResp" /\ doc[e].resp.ok /\ doc[e].given["_id"] = Num(10)
    /\ StartAt(Hook(e)) = 5 /\ IncrementBy(Hook(e)) = 2
    /\ hist["_id", "M1"].era = "unknown"
    /\ Stored(coll, "_id", "M1") = 10

\* C40: a step taken while the ready flag of a schema and model name is true leaves
\* it true, whether the step belongs to a registration, a save, nextCount,
\* resetCount or setDefaults
C40_ReadyIsStable ==
  [][\A s \in Schemas, m \in ModelNames :
       isReady(readyMap, s, m) => isReady(readyMap', s, m)]_vars

C40_Witness ==
  /\ isReady(readyMap, "S1", "M1")
  /\ plugin[1].pc = "ready" /\ plugin[2].pc \in {"ready", "rejected"}
  /\ doc[1].pc = "saved" /\ doc[1].isNew
  /\ hist[<<"_id", "M1">>].afterReset
  /\ call.kind = "setDefaults" /\ call.ok
  /\ defaultOptions # InitialDefaults

====
